---------------------------- MODULE Spec2Model ----------------------------
(***************************************************************************)
(* Model of the G-code queue/bridge (klippy/chelper/gcode_bridge.c) and of *)
(* the incremental lexer (klippy/chelper/gcode_lexer.c).                   *)
(*                                                                         *)
(* Spec     : the ring-buffered queue driven by the parser callbacks      *)
(*            parse_error / parse_statement and by the host calls         *)
(*            gcode_queue_exec_next / gcode_queue_delete.                  *)
(* LexSpec  : the lexer fed a byte sequence in arbitrary chunks.          *)
(* ByteSpec : the same with arbitrary bytes and failing allocations.      *)
(* ResetSpec: the lexer finished repeatedly, reset and fed again.         *)
(* ExprSpec : the lexer given one line that opens an expression.          *)
(* HexSpec  : hex_digit_to_int applied to every byte.                     *)
(* InterpSpec: the interpreter (gcode_interpreter.c) given statements and  *)
(*            asked for strings of its arena.                              *)
(* LongSpec : the lexer given a word that fills the first token buffer.   *)
(* AstNewSpec: the constructors of the syntax tree (gcode_ast.h/.c).      *)
(* AstSpec  : nodes built, linked and deleted.                            *)
(* LookupSpec: the lookup callback of the bridge called on one result.    *)
(***************************************************************************)
EXTENDS Integers, Sequences, FiniteSets, TLC

VARIABLES
    \* ---- struct GCodeQueue (gcode_bridge.c:38-49) and its heap -------
    queue,        \* [size, ring_pos, ring_size, ring, ring_freed, new_ring]
    crashed,      \* the process took a memory fault inside a handler
    deleted,      \* gcode_queue_delete has run
    \* ---- host side observations ---------------------------------------
    result,       \* GCodePyResult written by gcode_queue_exec_next
    ret,          \* value returned by the last queue call
    fatal_calls,  \* invocations of gcode_python_fatal
    m112_calls,   \* invocations of gcode_python_m112
    interp_calls, \* invocations of gcode_interp_exec
    freed,        \* freed[id]: how often the resource of entry id was released
    \* ---- history ------------------------------------------------------
    script,       \* kinds of the entries the parser produces, cyclically
    nextId,       \* identity of the next entry the parser will produce
    accepted,     \* ids handed to ring_add and not dropped by a failed growth
    popped,       \* ids popped by gcode_queue_exec_next, in order
    last,         \* what the last handler call did
    \* ---- struct GCodeLexer (gcode_lexer.c:78-102) and its driver -------
    lexer,        \* the lexer record, including the callback log
    input,        \* the whole byte sequence B
    fed,          \* number of bytes of B already passed to gcode_lexer_scan
    cbfail,       \* ordinals of the token callbacks the host answers false
    lexop,        \* last lexer entry point called
    splits,       \* the chunk boundaries inside B used so far
    allocfail,    \* ordinals of the token allocations that return NULL
    resets,       \* the states the lexer was in when it was reset
    \* ---- struct GCodeInterpreter (gcode_interpreter.c:14-29) ------------
    interp,       \* the interpreter record, including the callback log
    \* ---- a function of the lexer applied to one argument ----------------
    probe,        \* [ch, done, digit]: hex_digit_to_int(ch) once done
    \* ---- the nodes of gcode_ast.h, as a heap ----------------------------
    ast,          \* [heap, count, fault, last]
    \* ---- the GCodeVal the interpreter hands to its lookup callback -------
    lk            \* [result, calls, key_str, rv, ret]

qvars == <<queue, crashed, deleted, result, ret, fatal_calls, m112_calls,
           interp_calls, freed, script, nextId, accepted, popped, last>>
lvars == <<lexer, input, fed, cbfail, lexop, splits, allocfail, resets>>
ivars == <<interp, probe, ast, lk>>
vars  == <<queue, crashed, deleted, result, ret, fatal_calls, m112_calls,
           interp_calls, freed, script, nextId, accepted, popped, last,
           lexer, input, fed, cbfail, lexop, splits, allocfail, resets,
           interp, probe, ast, lk>>

-----------------------------------------------------------------------------
(* Bounds *)

\* number of entries the parser hands to the queue in one run
MaxPush == 35
\* period of the cyclic script of entry kinds
ScriptLen == 2
\* length of the byte sequence given to the lexer
MaxLen == 3
\* the callbacks the host may answer false are among the first MaxFail
MaxFail == 2
\* the token allocations that may fail are among the first MaxAlloc
MaxAlloc == 1
\* length of a line with an expression given to the lexer
ExprLen == 5
\* number of children of a statement given to the interpreter
MaxFields == 2
\* number of statements given to the interpreter in one run
MaxExec == 3
\* bytes the host gives the lexer in one call when it feeds a long line
ChunkLen == 8
\* number of nodes the host builds
MaxNodes == 3
\* largest size asked of gcode_interp_str_alloc
MaxStr == 2
\* number of calls of the lookup callback on one result
MaxLookups == 2
\* number of calls of gcode_add_next, gcode_add_child and gcode_node_delete
MaxCalls == 2

(* Program constants *)

\* queue->ring_size = 32 (gcode_queue_new)
RingInitSize == 32

-----------------------------------------------------------------------------
(* Ring entries                                                            *)

EntryKinds == {"error", "oom_error", "stmt", "m112"}

\* the kind of the entry the parser produces as its id-th entry
KindOf(id) == script[((id - 1) % ScriptLen) + 1]

\* RingEntry e = { true, true, .error = strdup(...) }, need_free = false and
\* the static text when strdup fails; { false, true, .statement = statement }
MkEntry(id, kind) ==
    [id        |-> id,
     is_error  |-> kind \in {"error", "oom_error"},
     need_free |-> kind # "oom_error",
     m112      |-> kind = "m112"]

\* a slot of calloc'ed storage: all bytes zero
ZeroEntry == [id |-> 0, is_error |-> FALSE, need_free |-> FALSE, m112 |-> FALSE]

\* a slot of storage realloc added and nobody wrote yet
UninitEntry == [id |-> -1, is_error |-> FALSE, need_free |-> FALSE, m112 |-> FALSE]

\* ring_entry_free: release the owned resource when need_free is set
ring_entry_free_always(fr, entry) ==
    IF entry.id >= 1 THEN [fr EXCEPT ![entry.id] = @ + 1] ELSE fr

ring_entry_free(fr, entry) ==
    IF entry.need_free
    THEN [fr EXCEPT ![entry.id] = @ + 1]
    ELSE fr

-----------------------------------------------------------------------------
(* size_t arithmetic.  A size_t difference that wraps below zero is kept  *)
(* as [wrap |-> TRUE, val |-> a - b]: its value is 2^w + val for the      *)
(* width w of size_t, which is larger than every index of the model.      *)

SizeSub(a, b) == [wrap |-> a < b, val |-> a - b]

\* i < m for an index i of the model and a size_t m
SizeLess(i, m) == m.wrap \/ i < m.val

-----------------------------------------------------------------------------
(* The queue                                                               *)

\* what realloc can answer: NULL, the same block enlarged, a new block
ReallocOutcomes == {"fail", "inplace", "moved"}

\* gcode_queue_new: ring_size = 32, calloc'ed ring, size = 0, ring_pos = 0
gcode_queue_new ==
    [size       |-> 0,
     ring_pos   |-> 0,
     ring_size  |-> RingInitSize,
     ring       |-> [i \in 0..(RingInitSize - 1) |-> ZeroEntry],
     ring_freed |-> FALSE,
     new_ring   |-> << >>]

\* the slot a pending entry is read from: queue->ring[i % queue->ring_size]
ReadSlot(q, i) ==
    IF (i % q.ring_size) \in DOMAIN q.ring
    THEN q.ring[i % q.ring_size]
    ELSE UninitEntry

\* the pending entries as exec_next would pop them, head first
Pending(q) == [k \in 1..q.size |-> ReadSlot(q, q.ring_pos + k - 1)]

PendingIds(q) == [k \in 1..q.size |-> Pending(q)[k].id]

\* size_t move_length = queue->ring_pos + queue->size - queue->ring_size,
\* evaluated after queue->ring_size = ring_size
MoveLength(q, ring_size) == SizeSub(q.ring_pos + q.size, ring_size)

\* for (i = 0; i < move_length; i++) new_ring[queue->ring_size + i] = new_ring[i]
\* restricted to the iterations that stay inside the alloc slots of the block
GrowCopy(blk, ring_size, move_length, alloc) ==
    [i \in 0..(alloc - 1) |->
        IF i >= ring_size /\ SizeLess(i - ring_size, move_length)
        THEN blk[i - ring_size]
        ELSE blk[i]]

\* the failure path of ring_add returning without ring_entry_free (mutant)
ring_add_fail_leak(q) ==
    [q |-> q, fatal |-> TRUE, dropped |-> FALSE, fault |-> FALSE,
     ub |-> FALSE, grew |-> FALSE,
     move |-> SizeSub(0, 0), dest |-> 0, oob |-> FALSE]

\* if (!new_ring) { gcode_python_fatal(...); ring_entry_free(&entry); return; }
ring_add_fail(q) ==
    [q |-> q, fatal |-> TRUE, dropped |-> TRUE, fault |-> FALSE,
     ub |-> FALSE, grew |-> FALSE,
     move |-> SizeSub(0, 0), dest |-> 0, oob |-> FALSE]

\* ring_add(queue, entry); ra is the answer of realloc when it is asked
ring_add(q, entry, ra) ==
    LET full      == q.size = q.ring_size
        grows     == full /\ ra # "fail"
        ring_size == 2 * q.ring_size
        alloc     == 2 * ring_size        \* realloc(ring, 2 * ring_size * sizeof)
        move      == MoveLength(q, ring_size)
        \* the reallocated block: old contents, the rest not initialised
        fresh     == [i \in 0..(alloc - 1) |->
                        IF i \in DOMAIN q.ring THEN q.ring[i] ELSE UninitEntry]
        copied    == GrowCopy(fresh, ring_size, move, alloc)
        \* the loop reaches index alloc: a store outside the block
        oob       == SizeLess(alloc - ring_size, move)
        q1        == IF ~grows THEN q
                     ELSE IF ra = "inplace"
                     THEN [q EXCEPT !.ring_size = ring_size, !.ring = copied]
                     ELSE [q EXCEPT !.ring_size = ring_size,
                                    !.ring_freed = TRUE, !.new_ring = copied]
        slot      == (q1.ring_pos + q1.size) % q1.ring_size
        wild      == q1.ring_freed \/ slot \notin DOMAIN q1.ring
        q2        == [q1 EXCEPT !.ring = IF slot \in DOMAIN @
                                         THEN [@ EXCEPT ![slot] = entry]
                                         ELSE @,
                                !.size = @ + 1]
    IN  IF full /\ ra = "fail"
        THEN ring_add_fail(q)
        ELSE IF grows /\ oob
        THEN \* the copy loop runs off the block before the store is reached
             [q |-> q1, fatal |-> FALSE, dropped |-> FALSE, fault |-> TRUE,
              ub |-> TRUE, grew |-> TRUE,
              move |-> move, dest |-> ring_size, oob |-> TRUE]
        ELSE [q |-> q2, fatal |-> FALSE, dropped |-> FALSE, fault |-> FALSE,
              ub |-> wild, grew |-> grows,
              move |-> IF grows THEN move ELSE SizeSub(0, 0),
              dest |-> IF grows THEN ring_size ELSE 0, oob |-> FALSE]

\* the slots gcode_queue_delete releases, visiting 0 .. size-1 (mutant)
DeleteSlots_from_zero(q) == [k \in 1..q.size |-> (k - 1) % q.ring_size]

\* for (i = ring_pos; i < ring_pos + size; i++) ... &queue->ring[i % ring_size]
DeleteSlots(q) == [k \in 1..q.size |-> (q.ring_pos + k - 1) % q.ring_size]

RECURSIVE FreeSlots(_, _, _)
FreeSlots(fr, q, slots) ==
    IF slots = << >> THEN fr
    ELSE FreeSlots(ring_entry_free(fr, ReadSlot(q, Head(slots))), q, Tail(slots))

\* ++queue->ring_pos without the wrap to 0 (mutant)
AdvancePos_nowrap(q) == q.ring_pos + 1

\* if (++queue->ring_pos == queue->ring_size) queue->ring_pos = 0
AdvancePos(q) == IF q.ring_pos + 1 = q.ring_size THEN 0 ELSE q.ring_pos + 1

\* the pop of exec_next with the ring_pos increment forgotten (mutant)
PopQueue_keep_pos(q) == [q EXCEPT !.size = @ - 1]

\* queue->size--; if (++queue->ring_pos == queue->ring_size) queue->ring_pos = 0
PopQueue(q) == [q EXCEPT !.size = @ - 1, !.ring_pos = AdvancePos(q)]

\* if (!queue->size) of gcode_queue_exec_next, taking the queue for empty
\* only when ring_pos is back at the start as well (mutant)
QueueEmpty_at_start(q) == q.size = 0 /\ q.ring_pos = 0

QueueEmpty(q) == q.size = 0

\* results of gcode_interp_exec as gcode_queue_exec_next switches on them
InterpResults == {"GCODE_RESULT_UNKNOWN", "GCODE_RESULT_ERROR",
                  "GCODE_RESULT_COMMAND"}

NoResult == [type |-> "NONE", ref |-> 0]

NoLast == [op |-> "new", realloc |-> "none", grew |-> FALSE,
           move |-> SizeSub(0, 0), dest |-> 0, oob |-> FALSE,
           pre_size |-> 0, pre_pos |-> 0, pre_cap |-> RingInitSize,
           entry |-> 0, m112_seen |-> FALSE, stale_read |-> FALSE]

-----------------------------------------------------------------------------
(* The keyword table (gcode_keywords.generated.c).  Bytes are 0 .. 255.    *)

\* asso_values[256] of hash(); entry k of the sequence is asso_values[k - 1]
asso_values ==
    <<
      33, 33, 33, 33, 33, 33, 33, 33, 33, 33, 19, 33, 33, 33, 33, 33,
      33, 33, 33, 33, 33, 33, 33, 33, 33, 33, 33, 33, 33, 33, 33, 33,
      33, 14, 33, 33, 33,  9, 33, 33, 31, 26, 15, 28, 23, 18, 13, 30,
      33, 33, 33, 33, 33, 33, 33, 33, 33, 33, 33, 33, 10, 25,  5, 33,
      33, 10, 33, 33, 33,  5,  0, 33, 33,  0, 33, 33, 33, 33,  0, 20,
      33, 33, 33, 33,  0, 33, 33, 33, 33, 33, 33, 33, 33, 33, 33, 33,
      33, 33, 33, 33, 33, 33, 33, 33, 33, 33, 33, 33, 33, 33, 33, 33,
      33, 33, 33, 33, 33, 33, 33, 33, 33, 33, 33, 33, 33, 33, 20, 33,
      33, 33, 33, 33, 33, 33, 33, 33, 33, 33, 33, 33, 33, 33, 33, 33,
      33, 33, 33, 33, 33, 33, 33, 33, 33, 33, 33, 33, 33, 33, 33, 33,
      33, 33, 33, 33, 33, 33, 33, 33, 33, 33, 33, 33, 33, 33, 33, 33,
      33, 33, 33, 33, 33, 33, 33, 33, 33, 33, 33, 33, 33, 33, 33, 33,
      33, 33, 33, 33, 33, 33, 33, 33, 33, 33, 33, 33, 33, 33, 33, 33,
      33, 33, 33, 33, 33, 33, 33, 33, 33, 33, 33, 33, 33, 33, 33, 33,
      33, 33, 33, 33, 33, 33, 33, 33, 33, 33, 33, 33, 33, 33, 33, 33,
      33, 33, 33, 33, 33, 33, 33, 33, 33, 33, 33, 33, 33, 33, 33,  0
    >>

\* wordlist[0 .. MAX_HASH_VALUE]; entry k of the sequence is wordlist[k - 1]
wordlist ==
    <<
      [name |-> <<>>, id |-> -1],
      [name |-> <<255>>, id |-> 288],
      [name |-> <<73, 70>>, id |-> 278],
      [name |-> <<78, 65, 78>>, id |-> 284],
      [name |-> <<84, 82, 85, 69>>, id |-> 286],
      [name |-> <<70, 65, 76, 83, 69>>, id |-> 287],
      [name |-> <<62>>, id |-> 274],
      [name |-> <<62, 61>>, id |-> 276],
      [name |-> <<73, 78, 70, 73, 78, 73, 84, 89>>, id |-> 285],
      [name |-> <<69, 76, 83, 69>>, id |-> 279],
      [name |-> <<37>>, id |-> 269],
      [name |-> <<60>>, id |-> 273],
      [name |-> <<60, 61>>, id |-> 275],
      [name |-> <<65, 78, 68>>, id |-> 264],
      [name |-> <<46>>, id |-> 280],
      [name |-> <<33>>, id |-> 277],
      [name |-> <<42>>, id |-> 271],
      [name |-> <<42, 42>>, id |-> 270],
      [name |-> <<>>, id |-> -1],
      [name |-> <<45>>, id |-> 268],
      [name |-> <<10>>, id |-> 262],
      [name |-> <<126>>, id |-> 266],
      [name |-> <<79, 82>>, id |-> 263],
      [name |-> <<>>, id |-> -1],
      [name |-> <<44>>, id |-> 281],
      [name |-> <<>>, id |-> -1],
      [name |-> <<61>>, id |-> 265],
      [name |-> <<41>>, id |-> 283],
      [name |-> <<>>, id |-> -1],
      [name |-> <<43>>, id |-> 267],
      [name |-> <<>>, id |-> -1],
      [name |-> <<47>>, id |-> 272],
      [name |-> <<40>>, id |-> 282]
    >>

MIN_WORD_LENGTH == 1
MAX_WORD_LENGTH == 8
MAX_HASH_VALUE == 32

\* the C string held in a byte buffer: the bytes before the first NUL
CStr(buf) ==
    LET nul == {i \in DOMAIN buf : buf[i] = 0}
    IN  IF nul = {} THEN buf
        ELSE SubSeq(buf, 1, (CHOOSE i \in nul : \A j \in nul : i <= j) - 1)

\* hash(str, len) = len + asso_values[(unsigned char)str[0]]
hash(str, len) == len + asso_values[str[1] + 1]

\* gcode_keyword_lookup(str, len): the id of the keyword, -1 for no match
gcode_keyword_lookup(str, len) ==
    IF len <= MAX_WORD_LENGTH /\ len >= MIN_WORD_LENGTH
    THEN LET key == hash(str, len)
         IN  IF key <= MAX_HASH_VALUE
                /\ wordlist[key + 1].name # << >>
                /\ CStr(str) = wordlist[key + 1].name
             THEN wordlist[key + 1].id
             ELSE -1
    ELSE -1

-----------------------------------------------------------------------------
(* 64-bit values.  The integers of the checker are narrower than int64_t, *)
(* so lexer->int_value is kept as four 16-bit limbs, low limb first.       *)

LIMB == 65536

\* the limbs of a small non-negative integer
W(n) == <<n % LIMB, (n \div LIMB) % LIMB, 0, 0>>

\* INT64_MAX = 2^63 - 1
INT64_MAX == <<65535, 65535, 65535, 32767>>

\* static const int UNICODE_MAX = 0x10ffff
UNICODE_MAX == 1114111

\* x * base + value, modulo 2^64
WMulAdd(x, base, value) ==
    LET t1 == x[1] * base + value
        t2 == x[2] * base + (t1 \div LIMB)
        t3 == x[3] * base + (t2 \div LIMB)
        t4 == x[4] * base + (t3 \div LIMB)
    IN  <<t1 % LIMB, t2 % LIMB, t3 % LIMB, t4 % LIMB>>

\* x - value for a small value <= x
WSubSmall(x, value) ==
    LET b1 == IF x[1] < value THEN 1 ELSE 0
        b2 == IF x[2] < b1 THEN 1 ELSE 0
        b3 == IF x[3] < b2 THEN 1 ELSE 0
    IN  <<(x[1] - value + b1 * LIMB) % LIMB, (x[2] - b1 + b2 * LIMB) % LIMB,
          (x[3] - b2 + b3 * LIMB) % LIMB, x[4] - b3>>

\* x / base for a small base
WDivSmall(x, base) ==
    LET q4 == x[4] \div base
        r4 == x[4] % base
        q3 == (r4 * LIMB + x[3]) \div base
        r3 == (r4 * LIMB + x[3]) % base
        q2 == (r3 * LIMB + x[2]) \div base
        r2 == (r3 * LIMB + x[2]) % base
        q1 == (r2 * LIMB + x[1]) \div base
    IN  <<q1, q2, q3, q4>>

\* x > y
WGreater(x, y) ==
    \/ x[4] > y[4]
    \/ x[4] = y[4] /\ x[3] > y[3]
    \/ x[4] = y[4] /\ x[3] = y[3] /\ x[2] > y[2]
    \/ x[4] = y[4] /\ x[3] = y[3] /\ x[2] = y[2] /\ x[1] > y[1]

\* the value as an integer of the checker, for values below 2^31
WSmall(x) == x[1] + LIMB * x[2]

\* conversion to char: the low byte
WByte(x) == x[1] % 256

\* conversion of int64_t to int, the parameter type of emit_int
WToInt(x) == IF x[2] >= 32768 THEN (x[2] - LIMB) * LIMB + x[1]
             ELSE x[2] * LIMB + x[1]

-----------------------------------------------------------------------------
(* The lexer (gcode_lexer.c)                                               *)

ENTER_EXPR == 123
EXIT_EXPR == 125

\* first allocation of gcode_token_alloc
TOKEN_LIMIT_INIT == 128

NoLocation == [first_line |-> 0, first_column |-> 0,
               last_line |-> 0, last_column |-> 0]

\* gcode_lexer_reset without token_length = 0 (mutant)
gcode_lexer_reset_keeps_token(L) ==
    [L EXCEPT !.state = "SCAN_NEWLINE", !.line = 1, !.column = 0]

\* gcode_lexer_reset: state, token_length, line, column
gcode_lexer_reset(L) ==
    [L EXCEPT !.state = "SCAN_NEWLINE", !.token = << >>,
              !.line = 1, !.column = 0]

\* gcode_lexer_new.  The numeric scratch fields are not initialised by the
\* constructor; every state sets them before it reads them, they start at 0
\* here.  token_str is "null" or "heap", token the bytes written to it.
\* log is the sequence of callbacks the lexer has made, pos the number of
\* input bytes it has been given, allocs the number of malloc/realloc calls
\* made for the token, fault whether a write went through a NULL token_str.
gcode_lexer_new ==
    gcode_lexer_reset(
        [state |-> "SCAN_NEWLINE", token |-> << >>, token_limit |-> 0,
         token_str |-> "null", allocs |-> 0, fault |-> FALSE,
         expr_nesting |-> 0, int_value |-> W(0), float_value |-> << >>,
         exponent_sign |-> 0, digit_count |-> 0,
         float_fraction_multiplier |-> 0,
         line |-> 0, column |-> 0, location |-> NoLocation, log |-> << >>,
         pos |-> 0])

\* the answer of the host to the next token callback
CallbackAnswer(L) == (Len(L.log) + 1) \notin cbfail

\* a token callback is made; the log keeps its kind and argument, the index
\* of the input byte being processed and the answer of the host
Invoke(L, kind, arg) ==
    IF L.fault THEN L
    ELSE [L EXCEPT !.log = Append(@, [k |-> kind, a |-> arg,
                                      loc |-> L.location, at |-> L.pos,
                                      ok |-> CallbackAnswer(L)])]

\* TOKEN_STOP
TOKEN_STOP(L) ==
    [L EXCEPT !.location.last_line = L.line,
              !.location.last_column = L.column + 1]

\* TOKEN_START
TOKEN_START(L) ==
    TOKEN_STOP([L EXCEPT !.location.first_line = L.line,
                         !.location.first_column = L.column])

\* ERROR(args...) without the assignment to lexer->state (mutant)
ERROR_keeps_state(L, msg) ==
    IF L.fault THEN L ELSE
    [L EXCEPT !.log = Append(@, [k |-> "error", a |-> msg,
                                 loc |-> L.location,
                                 at |-> L.pos, ok |-> TRUE])]

\* ERROR(args...): the error callback with the current location, then
\* lexer->state = SCAN_ERROR
ERROR(L, msg) ==
    IF L.fault THEN L ELSE
    [L EXCEPT !.log = Append(@, [k |-> "error", a |-> msg,
                                 loc |-> L.location,
                                 at |-> L.pos, ok |-> TRUE]),
              !.state = "SCAN_ERROR"]

\* the answer of malloc / realloc to the next token allocation
AllocAnswer(L) == (L.allocs + 1) \notin allocfail

\* gcode_token_alloc: malloc(128) when token_str is NULL, else realloc to
\* twice the limit; token_limit is set, and token_str overwritten, before
\* the answer is looked at
gcode_token_alloc(L) ==
    LET L1 == [L EXCEPT !.token_limit = IF L.token_str = "null"
                                        THEN TOKEN_LIMIT_INIT ELSE 2 * @,
                        !.allocs = @ + 1,
                        !.token_str = IF AllocAnswer(L) THEN "heap"
                                      ELSE "null"]
    IN  IF AllocAnswer(L) THEN L1
        ELSE ERROR(TOKEN_STOP(L1), "Out of memory (gcode_token_alloc)")

\* token_char: token_str[token_length++] = ch, after gcode_token_alloc when
\* token_length == token_limit; the store through a NULL token_str is a
\* memory fault
token_char(L, ch) ==
    IF L.fault THEN L
    ELSE IF Len(L.token) = L.token_limit
    THEN LET L1 == gcode_token_alloc(L)
         IN  IF L1.token_str = "heap" THEN [L1 EXCEPT !.token = Append(@, ch)]
             ELSE L1
    ELSE IF L.token_str = "null" THEN [L EXCEPT !.fault = TRUE]
    ELSE [L EXCEPT !.token = Append(@, ch)]

\* a token_char / terminate_token call returned false (ERROR has set the
\* state) or faulted
TokenFailed(L) == L.fault \/ L.state = "SCAN_ERROR"

\* if (TOKEN_CHAR(...)) lexer->state = st
GotoIfStored(L, st) == IF TokenFailed(L) THEN L ELSE [L EXCEPT !.state = st]

\* terminate_token
terminate_token(L) == token_char(L, 0)

\* free_token
free_token(L) == [L EXCEPT !.token = << >>]

\* get_keyword_id on the terminated token
get_keyword_id(L) == gcode_keyword_lookup(L.token, Len(L.token) - 1)

\* the state a failed emit leaves the lexer in
EnterError(L) == [L EXCEPT !.state = "SCAN_ERROR"]

\* emit_str
emit_str(L) ==
    LET L1 == terminate_token(TOKEN_STOP(L))
        ok == CallbackAnswer(L1)
        L2 == Invoke(L1, "str_literal", CStr(L1.token))
    IN  IF TokenFailed(L1) THEN [L |-> free_token(L1), ok |-> FALSE]
        ELSE IF ok THEN [L |-> free_token(L2), ok |-> TRUE]
        ELSE [L |-> free_token(EnterError(L2)), ok |-> FALSE]

\* emit_char_symbol
emit_char_symbol(L, ch) ==
    LET L1 == terminate_token(token_char(TOKEN_STOP(TOKEN_START(L)), ch))
        id == get_keyword_id(L1)
        L2 == free_token(L1)
        ok == CallbackAnswer(L2)
        L3 == Invoke(L2, "keyword", id)
    IN  IF TokenFailed(L1) THEN [L |-> free_token(L1), ok |-> FALSE]
        ELSE IF id = -1
        THEN [L |-> ERROR(L2, "Internal: Attempt to emit unknown symbol"),
              ok |-> FALSE]
        ELSE IF ok THEN [L |-> L3, ok |-> TRUE]
        ELSE [L |-> EnterError(L3), ok |-> FALSE]

\* emit_bridge
emit_bridge(L) ==
    LET L1 == TOKEN_STOP(TOKEN_START(L))
        ok == CallbackAnswer(L1)
        L2 == Invoke(L1, "bridge", << >>)
    IN  IF ok THEN [L |-> L2, ok |-> TRUE]
        ELSE [L |-> EnterError(L2), ok |-> FALSE]

\* emit_end_of_statement: the answer of the callback is not looked at
emit_end_of_statement(L) ==
    LET L1 == TOKEN_STOP(TOKEN_START(L))
        L2 == Invoke(L1, "end_of_statement", << >>)
    IN  [L2 EXCEPT !.state = "SCAN_NEWLINE"]

\* CASE_SPACE: ' ', '\t', '\v', '\r'
IsSpace(ch) == ch \in {32, 9, 11, 13}

\* TOKEN_CHAR_UPPER storing the byte as it is (mutant)
Upper_asis(ch) == ch

\* TOKEN_CHAR_UPPER: ch >= 'a' && ch <= 'z' ? ch - 32 : ch
Upper(ch) == IF ch >= 97 /\ ch <= 122 THEN ch - 32 ELSE ch

Stay(L) == [L |-> L, backup |-> FALSE]
Back(L) == [L |-> L, backup |-> TRUE]
Goto(L, st) == [L EXCEPT !.state = st]

\* case SCAN_NEWLINE where ';' opens a statement comment (mutant)
Scan_NEWLINE_comment(L, ch) ==
    IF ch = 78 \/ ch = 110 THEN Stay(Goto(L, "SCAN_LINENO"))
    ELSE IF ch = 59 THEN Stay(Goto(L, "SCAN_COMMENT"))
    ELSE IF ch = 10 \/ IsSpace(ch) THEN Stay(L)
    ELSE Back(Goto(L, "SCAN_STATEMENT"))

\* case SCAN_NEWLINE
Scan_NEWLINE(L, ch) ==
    IF ch = 78 \/ ch = 110 THEN Stay(Goto(L, "SCAN_LINENO"))
    ELSE IF ch = 59 THEN Stay(Goto(L, "SCAN_EMPTY_LINE_COMMENT"))
    ELSE IF ch = 10 \/ IsSpace(ch) THEN Stay(L)
    ELSE Back(Goto(L, "SCAN_STATEMENT"))

\* case SCAN_ERROR
Scan_ERROR(L, ch) ==
    IF ch = 10 THEN Stay(Goto(L, "SCAN_NEWLINE")) ELSE Stay(L)

\* case SCAN_LINENO
Scan_LINENO(L, ch) ==
    IF ch = 10 THEN Stay(Goto(L, "SCAN_NEWLINE"))
    ELSE IF IsSpace(ch) THEN Stay(Goto(L, "SCAN_AFTER_LINENO"))
    ELSE IF ch = 59 THEN Stay(Goto(L, "SCAN_EMPTY_LINE_COMMENT"))
    ELSE IF ch = ENTER_EXPR
    THEN LET r == emit_char_symbol(L, ch)
         IN  IF r.ok THEN Stay(Goto(r.L, "SCAN_EXPR")) ELSE Stay(r.L)
    ELSE Stay(L)

\* case SCAN_AFTER_LINENO
Scan_AFTER_LINENO(L, ch) ==
    IF ch = 10 THEN Stay(Goto(L, "SCAN_NEWLINE"))
    ELSE IF IsSpace(ch) THEN Stay(L)
    ELSE IF ch = 59 THEN Stay(Goto(L, "SCAN_EMPTY_LINE_COMMENT"))
    ELSE Back(Goto(L, "SCAN_STATEMENT"))

\* case SCAN_STATEMENT
Scan_STATEMENT(L, ch) ==
    IF ch = ENTER_EXPR
    THEN LET r == emit_char_symbol(L, ch)
         IN  IF r.ok
             THEN Stay([r.L EXCEPT !.state = "SCAN_EXPR", !.expr_nesting = 0])
             ELSE Stay(r.L)
    ELSE IF ch = 10 THEN Stay(emit_end_of_statement(L))
    ELSE IF ch = 59 THEN Stay(Goto(L, "SCAN_COMMENT"))
    ELSE IF IsSpace(ch) THEN Stay(L)
    ELSE Back(Goto(TOKEN_START(L), "SCAN_WORD"))

\* case SCAN_WORD
Scan_WORD(L, ch) ==
    IF ch = 10 THEN Stay(emit_end_of_statement(emit_str(L).L))
    ELSE IF IsSpace(ch)
    THEN LET r == emit_str(L)
         IN  IF r.ok THEN Stay(Goto(r.L, "SCAN_STATEMENT")) ELSE Stay(r.L)
    ELSE IF ch = 59
    THEN LET r == emit_str(L)
         IN  IF r.ok THEN Stay(Goto(r.L, "SCAN_COMMENT")) ELSE Stay(r.L)
    ELSE IF ch = ENTER_EXPR
    THEN LET r1 == emit_str(L)
             r2 == emit_bridge(r1.L)
             r3 == emit_char_symbol(r2.L, ch)
         IN  IF ~r1.ok THEN Stay(r1.L)
             ELSE IF ~r2.ok THEN Stay(r2.L)
             ELSE IF ~r3.ok THEN Stay(r3.L)
             ELSE Stay([r3.L EXCEPT !.state = "SCAN_EXPR",
                                    !.expr_nesting = 0])
    ELSE Stay(token_char(L, Upper(ch)))

\* case SCAN_COMMENT
Scan_COMMENT(L, ch) ==
    IF ch = 10 THEN Stay(emit_end_of_statement(L)) ELSE Stay(L)

\* case SCAN_EMPTY_LINE_COMMENT
Scan_EMPTY_LINE_COMMENT(L, ch) ==
    IF ch = 10 THEN Stay(Goto(L, "SCAN_NEWLINE")) ELSE Stay(L)

-----------------------------------------------------------------------------
(* Expression mode of the lexer                                            *)

\* hex_digit_to_int: '0'-'9', 'a'-'f' and 'A'-'Z'
hex_digit_to_int(ch) ==
    IF ch >= 48 /\ ch <= 57 THEN ch - 48
    ELSE IF ch >= 97 /\ ch <= 102 THEN 10 + ch - 97
    ELSE IF ch >= 65 /\ ch <= 90 THEN 10 + ch - 65
    ELSE -1

\* add_safe_digit
add_safe_digit(L, value, base) ==
    [L EXCEPT !.int_value = WMulAdd(@, base, value),
              !.digit_count = @ + 1]

\* lexer->float_value is kept as the sequence of operations applied to it
FloatSet(L, x) == [L EXCEPT !.float_value = <<[op |-> "set", v |-> x]>>]

\* set_exponent: float_value *= pow(base, exponent_sign * int_value)
set_exponent(L, base) ==
    [L EXCEPT !.float_value =
        Append(@, [op |-> "exp", base |-> base, sign |-> L.exponent_sign,
                   v |-> L.int_value])]

\* add_float_digit: float_value = float_value * base + value
add_float_digit(L, value, base) ==
    [L EXCEPT !.float_value =
        Append(@, [op |-> "muladd", base |-> base, v |-> value])]

\* add_float_fraction_digit: multiplier /= base; value += digit * multiplier.
\* float_fraction_multiplier holds the number of divisions since it was 1.
add_float_fraction_digit(L, value, base) ==
    [L EXCEPT !.float_fraction_multiplier = @ + 1,
              !.float_value =
        Append(@, [op |-> "frac", base |-> base, v |-> value,
                   n |-> L.float_fraction_multiplier + 1])]

\* is_ident_char
is_ident_char(ch) ==
    \/ ch >= 97 /\ ch <= 122
    \/ ch >= 65 /\ ch <= 90
    \/ ch >= 48 /\ ch <= 57
    \/ ch = 95
    \/ ch = 36

\* is_symbol_char: ` ~ ! @ # % ^ & * ( ) - + = { [ } ] | \ : , < . > ? /
is_symbol_char(ch) ==
    ch \in {96, 126, 33, 64, 35, 37, 94, 38, 42, 40, 41, 45, 43, 61, 123, 91,
            125, 93, 124, 92, 58, 44, 60, 46, 62, 63, 47}

\* emit_symbol
emit_symbol(L) ==
    LET L1 == terminate_token(TOKEN_STOP(L))
        id == get_keyword_id(L1)
        L2 == free_token(L1)
        ok == CallbackAnswer(L2)
        L3 == Invoke(L2, "keyword", id)
    IN  IF TokenFailed(L1) THEN [L |-> free_token(L1), ok |-> FALSE]
        ELSE IF id = -1
        THEN [L |-> free_token(ERROR(L1, "Illegal operator")), ok |-> FALSE]
        ELSE IF ok THEN [L |-> L3, ok |-> TRUE]
        ELSE [L |-> EnterError(L3), ok |-> FALSE]

\* emit_int(lexer, int value)
emit_int(L, value) ==
    LET L1 == TOKEN_STOP(L)
        ok == CallbackAnswer(L1)
        L2 == Invoke(L1, "int_literal", value)
    IN  IF ok THEN [L |-> L2, ok |-> TRUE]
        ELSE [L |-> EnterError(L2), ok |-> FALSE]

\* EMIT_INT(): emit_int(lexer, lexer->int_value), int64_t converted to int
EMIT_INT(L) == emit_int(L, WToInt(L.int_value))

\* emit_float / EMIT_FLOAT()
EMIT_FLOAT(L) ==
    LET L1 == TOKEN_STOP(L)
        ok == CallbackAnswer(L1)
        L2 == Invoke(L1, "float_literal", L1.float_value)
    IN  IF ok THEN [L |-> L2, ok |-> TRUE]
        ELSE [L |-> EnterError(L2), ok |-> FALSE]

\* emit_keyword_or_identifier: a false answer does not change lexer->state
emit_keyword_or_identifier(L) ==
    LET L1 == terminate_token(TOKEN_STOP(L))
        id == get_keyword_id(L1)
        ok == CallbackAnswer(L1)
        L2 == IF id = -1 THEN Invoke(L1, "identifier", CStr(L1.token))
              ELSE Invoke(L1, "keyword", id)
    IN  IF TokenFailed(L1) THEN [L |-> free_token(L1), ok |-> FALSE]
        ELSE [L |-> free_token(L2), ok |-> ok]

\* digit_exceeds: lexer->int_value > (max - value) / base
digit_exceeds(L, value, base, max) ==
    WGreater(L.int_value, WDivSmall(WSubSmall(max, value), base))

\* add_digit
add_digit(L, value, base, max, err) ==
    IF digit_exceeds(L, value, base, max)
    THEN [L |-> free_token(ERROR(L, err)), ok |-> FALSE]
    ELSE [L |-> add_safe_digit(L, value, base), ok |-> TRUE]

\* the UTF-8 encoding wctomb produces for a code point, << >> when it fails
Utf8(cp) ==
    IF cp < 128 THEN <<cp>>
    ELSE IF cp < 2048 THEN <<192 + (cp \div 64), 128 + (cp % 64)>>
    ELSE IF cp >= 55296 /\ cp <= 57343 THEN << >>
    ELSE IF cp < 65536
    THEN <<224 + (cp \div 4096), 128 + ((cp \div 64) % 64), 128 + (cp % 64)>>
    ELSE IF cp <= UNICODE_MAX
    THEN <<240 + (cp \div 262144), 128 + ((cp \div 4096) % 64),
           128 + ((cp \div 64) % 64), 128 + (cp % 64)>>
    ELSE << >>

RECURSIVE TokenChars(_, _)
TokenChars(L, bytes) ==
    IF bytes = << >> \/ TokenFailed(L) THEN L
    ELSE TokenChars(token_char(L, Head(bytes)), Tail(bytes))

\* add_str_wchar: wctomb(buf, int_value) in a UTF-8 locale; when wctomb
\* fails a '?' is stored and true returned whatever token_char answered
add_str_wchar(L) ==
    LET enc == Utf8(WSmall(L.int_value))
        L1  == TokenChars(L, enc)
    IN  IF enc = << >> THEN [L |-> token_char(L, 63), ok |-> TRUE]
        ELSE [L |-> L1, ok |-> ~TokenFailed(L1)]

\* if (... && add_str_wchar(lexer)) lexer->state = SCAN_STR
GotoIfWchar(w) == IF w.ok THEN [w.L EXCEPT !.state = "SCAN_STR"] ELSE w.L

ResetInt(L) == [L EXCEPT !.int_value = W(0), !.digit_count = 0]

\* case SCAN_EXPR
Scan_EXPR(L, ch) ==
    IF ch = 10
    THEN Stay(Goto(ERROR(TOKEN_STOP(TOKEN_START(L)),
                         "Unterminated expression"), "SCAN_NEWLINE"))
    ELSE IF IsSpace(ch) THEN Stay(L)
    ELSE IF ch = 40
    THEN Stay(emit_char_symbol([L EXCEPT !.expr_nesting = @ + 1], ch).L)
    ELSE IF ch = 41
    THEN Stay(emit_char_symbol(
                 [L EXCEPT !.expr_nesting = IF @ # 0 THEN @ - 1 ELSE @], ch).L)
    ELSE IF ch = EXIT_EXPR
    THEN LET r == emit_char_symbol(L, ch)
         IN  IF r.ok THEN Stay(Goto(r.L, "SCAN_AFTER_EXPR")) ELSE Stay(r.L)
    ELSE IF ch = 48 THEN Stay(Goto(TOKEN_START(L), "SCAN_NUMBER_BASE"))
    ELSE IF ch = 39 \/ ch = 96
    THEN Stay(ERROR(TOKEN_START(L), "Unexpected character"))
    ELSE IF ch = 46
    THEN Stay([FloatSet(TOKEN_START(L), W(0)) EXCEPT
                  !.float_fraction_multiplier = 0,
                  !.state = "SCAN_DECIMAL_FRACTION"])
    ELSE IF ch = 34 THEN Stay(Goto(TOKEN_START(L), "SCAN_STR"))
    ELSE IF ch >= 49 /\ ch <= 57
    THEN Back(Goto(ResetInt(TOKEN_START(L)), "SCAN_DECIMAL"))
    ELSE IF is_symbol_char(ch)
    THEN Stay(token_char(Goto(TOKEN_START(L), "SCAN_SYMBOL"), ch))
    ELSE Stay(token_char(Goto(TOKEN_START(L), "SCAN_IDENTIFIER"), Upper(ch)))

\* case SCAN_AFTER_EXPR
Scan_AFTER_EXPR(L, ch) ==
    IF ch = 10 \/ ch = 59 \/ IsSpace(ch)
    THEN Back(Goto(L, "SCAN_STATEMENT"))
    ELSE LET r == emit_bridge(L)
         IN  IF r.ok THEN Back(Goto(r.L, "SCAN_WORD")) ELSE Back(r.L)

\* case SCAN_SYMBOL
Scan_SYMBOL(L, ch) ==
    IF is_symbol_char(ch) THEN Stay(token_char(L, ch))
    ELSE LET r == emit_symbol(L)
         IN  IF ~r.ok THEN Stay(r.L)
             ELSE IF ch = 10
             THEN Stay(Goto(ERROR(TOKEN_START(r.L), "Unterminated expression"),
                            "SCAN_NEWLINE"))
             ELSE Back(Goto(r.L, "SCAN_EXPR"))

\* case SCAN_IDENTIFIER
Scan_IDENTIFIER(L, ch) ==
    IF is_ident_char(ch) THEN Stay(token_char(L, Upper(ch)))
    ELSE LET r == emit_keyword_or_identifier(L)
         IN  IF ~r.ok THEN Stay(r.L) ELSE Back(Goto(r.L, "SCAN_EXPR"))

\* case SCAN_STR
Scan_STR(L, ch) ==
    IF ch = 92 THEN Stay(Goto(L, "SCAN_STR_ESCAPE"))
    ELSE IF ch = 34
    THEN LET r == emit_str(L)
         IN  IF r.ok THEN Stay(Goto(r.L, "SCAN_EXPR")) ELSE Stay(r.L)
    ELSE IF ch = 10
    THEN Stay(Goto(free_token(ERROR(L, "Unterminated string")), "SCAN_NEWLINE"))
    ELSE Stay(token_char(L, ch))

\* CASE_STR_ESC table: escape character -> byte
StrEscapes ==
    (97 :> 7) @@ (98 :> 8) @@ (101 :> 27) @@ (102 :> 12) @@ (110 :> 10)
    @@ (114 :> 13) @@ (116 :> 9) @@ (118 :> 11) @@ (92 :> 92) @@ (39 :> 39)
    @@ (34 :> 34) @@ (63 :> 63)

\* case SCAN_STR_ESCAPE
Scan_STR_ESCAPE(L, ch) ==
    IF ch \in DOMAIN StrEscapes
    THEN Stay(GotoIfStored(token_char(L, StrEscapes[ch]), "SCAN_STR"))
    ELSE IF ch = 120 THEN Stay(Goto(ResetInt(L), "SCAN_STR_HEX"))
    ELSE IF ch = 117 THEN Stay(Goto(ResetInt(L), "SCAN_STR_LOW_UNICODE"))
    ELSE IF ch = 85 THEN Stay(Goto(ResetInt(L), "SCAN_STR_HIGH_UNICODE"))
    ELSE IF ch = 10
    THEN Stay(Goto(free_token(ERROR(L, "Unterminated string")), "SCAN_NEWLINE"))
    ELSE IF ch >= 48 /\ ch <= 57
    THEN Back(Goto(ResetInt(L), "SCAN_STR_OCTAL"))
    ELSE Stay(free_token(ERROR(L, "Illegal string escape")))

\* case SCAN_STR_OCTAL
Scan_STR_OCTAL(L, ch) ==
    IF ch >= 48 /\ ch <= 55
    THEN LET r == add_digit(L, ch - 48, 8, W(255),
                            "Octal escape (\\nnn) exceeds byte value")
         IN  IF r.ok /\ r.L.digit_count = 3
             THEN Stay(GotoIfStored(token_char(r.L, WByte(r.L.int_value)),
                                    "SCAN_STR"))
             ELSE Stay(r.L)
    ELSE IF ch = 56 \/ ch = 57
    THEN Stay(free_token(ERROR(L, "Illegal digit in octal escape (\\nnn)")))
    ELSE Back(GotoIfStored(token_char(L, WByte(L.int_value)), "SCAN_STR"))

\* case SCAN_STR_HEX
Scan_STR_HEX(L, ch) ==
    LET digit_value == hex_digit_to_int(ch)
    IN  IF digit_value = -1
        THEN IF L.digit_count = 0
             THEN Stay(free_token(ERROR(L,
                     "Hex string escape (\\x) requires at least one digit")))
             ELSE Back(GotoIfStored(token_char(L, WByte(L.int_value)),
                                    "SCAN_STR"))
        ELSE LET r == add_digit(L, digit_value, 16, W(255),
                                "Hex escape exceeds byte value")
             IN  IF ~r.ok THEN Stay(EnterError(r.L)) ELSE Stay(r.L)

\* case SCAN_STR_LOW_UNICODE
Scan_STR_LOW_UNICODE(L, ch) ==
    LET digit_value == hex_digit_to_int(ch)
        L1 == add_safe_digit(L, digit_value, 16)
    IN  IF digit_value = -1
        THEN Stay(free_token(ERROR(L,
                "Low unicode escape (\\u) requires exactly four digits")))
        ELSE IF L1.digit_count = 4
        THEN Stay(GotoIfWchar(add_str_wchar(L1)))
        ELSE Stay(L1)

\* case SCAN_STR_HIGH_UNICODE
Scan_STR_HIGH_UNICODE(L, ch) ==
    LET digit_value == hex_digit_to_int(ch)
        r == add_digit(L, digit_value, 16, W(UNICODE_MAX),
                       "High unicode escape (\\U) exceeds unicode value")
    IN  IF digit_value = -1
        THEN Stay(free_token(ERROR(L,
                "High unicode escape (\\U) requires exactly eight digits")))
        ELSE IF r.ok /\ r.L.digit_count = 8
        THEN Stay(GotoIfWchar(add_str_wchar(r.L)))
        ELSE Stay(r.L)

-----------------------------------------------------------------------------
(* Numeric literals                                                        *)

IsDigit(ch) == ch >= 48 /\ ch <= 57

\* the emit-then-back-up tail shared by the numeric states:
\* if (EMIT_x()) lexer->state = SCAN_EXPR; BACK_UP;
EmitToExpr(r) == IF r.ok THEN Back(Goto(r.L, "SCAN_EXPR")) ELSE Back(r.L)

StartFraction(L) == [L EXCEPT !.float_fraction_multiplier = 0]

\* case SCAN_NUMBER_BASE
Scan_NUMBER_BASE(L, ch) ==
    IF ch = 98 \/ ch = 66 THEN Stay(Goto(ResetInt(L), "SCAN_BINARY"))
    ELSE IF ch = 120 \/ ch = 88 THEN Stay(Goto(ResetInt(L), "SCAN_HEX"))
    ELSE IF ch = 46
    THEN Stay(Goto(StartFraction(FloatSet(L, W(0))), "SCAN_DECIMAL_FRACTION"))
    ELSE IF ch = 101 \/ ch = 69
    THEN Stay(Goto(FloatSet(L, W(0)), "SCAN_DECIMAL_EXPONENT_SIGN"))
    ELSE IF IsDigit(ch)
    THEN Back([L EXCEPT !.int_value = W(0), !.state = "SCAN_OCTAL"])
    ELSE EmitToExpr(emit_int(L, 0))

\* case SCAN_DECIMAL
Scan_DECIMAL(L, ch) ==
    IF ch = 46
    THEN Stay(Goto(StartFraction(FloatSet(L, L.int_value)),
                   "SCAN_DECIMAL_FRACTION"))
    ELSE IF ch = 101 \/ ch = 69
    THEN Stay(Goto(FloatSet(L, L.int_value), "SCAN_DECIMAL_EXPONENT_SIGN"))
    ELSE IF IsDigit(ch)
    THEN IF digit_exceeds(L, ch - 48, 10, INT64_MAX)
         THEN Stay(Goto(FloatSet(L, L.int_value), "SCAN_DECIMAL_FLOAT"))
         ELSE Stay(add_safe_digit(L, ch - 48, 10))
    ELSE EmitToExpr(EMIT_INT(L))

\* case SCAN_HEX
Scan_HEX(L, ch) ==
    IF ch = 46
    THEN Stay(Goto(StartFraction(FloatSet(L, L.int_value)),
                   "SCAN_HEX_FRACTION"))
    ELSE IF ch = 112 \/ ch = 80
    THEN Stay(Goto(FloatSet(L, L.int_value), "SCAN_HEX_EXPONENT_SIGN"))
    ELSE IF hex_digit_to_int(ch) # -1
    THEN IF digit_exceeds(L, hex_digit_to_int(ch), 16, INT64_MAX)
         THEN Stay(Goto(FloatSet(L, L.int_value), "SCAN_HEX_FLOAT"))
         ELSE Stay(add_safe_digit(L, hex_digit_to_int(ch), 16))
    ELSE EmitToExpr(EMIT_INT(L))

\* case SCAN_BINARY
Scan_BINARY(L, ch) ==
    IF ch = 48 \/ ch = 49
    THEN Stay(add_digit(L, ch - 48, 2, INT64_MAX,
                        "Binary literal exceeds maximum value").L)
    ELSE IF ch = 46
    THEN Stay(ERROR(L, "Fractional binary literals not allowed"))
    ELSE IF ch >= 50 /\ ch <= 57 THEN Stay(ERROR(L, "Illegal binary digit"))
    ELSE EmitToExpr(EMIT_INT(L))

\* case SCAN_OCTAL
Scan_OCTAL(L, ch) ==
    IF ch >= 48 /\ ch <= 55
    THEN Stay(add_digit(L, ch - 48, 8, INT64_MAX,
                        "Octal literal exceeds maximum value").L)
    ELSE IF ch = 46
    THEN Stay(ERROR(L, "Fractional octal literals not allowed"))
    ELSE IF ch = 56 \/ ch = 57 THEN Stay(ERROR(L, "Illegal octal digit"))
    ELSE EmitToExpr(EMIT_INT(L))

\* case SCAN_DECIMAL_FLOAT
Scan_DECIMAL_FLOAT(L, ch) ==
    IF ch = 46 THEN Stay(Goto(StartFraction(L), "SCAN_DECIMAL_FRACTION"))
    ELSE IF ch = 101 \/ ch = 69
    THEN Stay(Goto(L, "SCAN_DECIMAL_EXPONENT_SIGN"))
    ELSE IF IsDigit(ch) THEN Stay(add_float_digit(L, ch - 48, 10))
    ELSE EmitToExpr(EMIT_FLOAT(L))

\* case SCAN_DECIMAL_FRACTION
Scan_DECIMAL_FRACTION(L, ch) ==
    IF ch = 101 \/ ch = 69 THEN Stay(Goto(L, "SCAN_DECIMAL_EXPONENT_SIGN"))
    ELSE IF IsDigit(ch) THEN Stay(add_float_fraction_digit(L, ch - 48, 10))
    ELSE EmitToExpr(EMIT_FLOAT(L))

\* case SCAN_DECIMAL_EXPONENT_SIGN / SCAN_HEX_EXPONENT_SIGN
ScanExponentSign(L, ch, next) ==
    LET L1 == [ResetInt(L) EXCEPT !.exponent_sign = IF ch = 45 THEN -1 ELSE 1,
                                  !.state = next]
    IN  IF ch = 45 THEN Stay(L1) ELSE Back(L1)

\* case SCAN_DECIMAL_EXPONENT: the answer of EMIT_FLOAT() is dropped and the
\* state set to SCAN_EXPR
Scan_DECIMAL_EXPONENT(L, ch) ==
    IF IsDigit(ch)
    THEN IF L.digit_count = 3
         THEN Stay(ERROR(L, "Decimal exponent must be 3 digits or less"))
         ELSE Stay(add_safe_digit(L, ch - 48, 10))
    ELSE IF L.digit_count = 0
    THEN Stay(ERROR(L, "No digits after decimal exponent delimiter"))
    ELSE Back(Goto(EMIT_FLOAT(set_exponent(L, 10)).L, "SCAN_EXPR"))

\* case SCAN_HEX_FLOAT
Scan_HEX_FLOAT(L, ch) ==
    IF ch = 46 THEN Stay(Goto(StartFraction(L), "SCAN_HEX_FRACTION"))
    ELSE IF ch = 112 \/ ch = 80 THEN Stay(Goto(L, "SCAN_HEX_EXPONENT_SIGN"))
    ELSE IF hex_digit_to_int(ch) # -1
    THEN Stay(add_float_digit(L, hex_digit_to_int(ch), 16))
    ELSE EmitToExpr(EMIT_FLOAT(L))

\* case SCAN_HEX_FRACTION
Scan_HEX_FRACTION(L, ch) ==
    IF ch = 112 \/ ch = 80 THEN Stay(Goto(L, "SCAN_HEX_EXPONENT_SIGN"))
    ELSE IF hex_digit_to_int(ch) # -1
    THEN Stay(add_float_fraction_digit(L, hex_digit_to_int(ch), 16))
    ELSE EmitToExpr(EMIT_FLOAT(L))

\* case SCAN_HEX_EXPONENT
Scan_HEX_EXPONENT(L, ch) ==
    IF hex_digit_to_int(ch) # -1
    THEN IF L.digit_count = 2
         THEN Stay(ERROR(L, "Hex exponent must be 2 digits or less"))
         ELSE Stay(add_safe_digit(L, hex_digit_to_int(ch), 16))
    ELSE IF L.digit_count = 0
    THEN Stay(ERROR(L, "No digits after hex exponent delimiter"))
    ELSE Back(Goto(EMIT_FLOAT(set_exponent(L, 16)).L, "SCAN_EXPR"))

-----------------------------------------------------------------------------
(* gcode_lexer_scan                                                        *)

\* switch (lexer->state)
ScanByte(L, ch) ==
    CASE L.state = "SCAN_NEWLINE" -> Scan_NEWLINE(L, ch)
      [] L.state = "SCAN_ERROR" -> Scan_ERROR(L, ch)
      [] L.state = "SCAN_LINENO" -> Scan_LINENO(L, ch)
      [] L.state = "SCAN_AFTER_LINENO" -> Scan_AFTER_LINENO(L, ch)
      [] L.state = "SCAN_STATEMENT" -> Scan_STATEMENT(L, ch)
      [] L.state = "SCAN_WORD" -> Scan_WORD(L, ch)
      [] L.state = "SCAN_COMMENT" -> Scan_COMMENT(L, ch)
      [] L.state = "SCAN_EMPTY_LINE_COMMENT" -> Scan_EMPTY_LINE_COMMENT(L, ch)
      [] L.state = "SCAN_EXPR" -> Scan_EXPR(L, ch)
      [] L.state = "SCAN_AFTER_EXPR" -> Scan_AFTER_EXPR(L, ch)
      [] L.state = "SCAN_SYMBOL" -> Scan_SYMBOL(L, ch)
      [] L.state = "SCAN_IDENTIFIER" -> Scan_IDENTIFIER(L, ch)
      [] L.state = "SCAN_STR" -> Scan_STR(L, ch)
      [] L.state = "SCAN_STR_ESCAPE" -> Scan_STR_ESCAPE(L, ch)
      [] L.state = "SCAN_STR_OCTAL" -> Scan_STR_OCTAL(L, ch)
      [] L.state = "SCAN_STR_HEX" -> Scan_STR_HEX(L, ch)
      [] L.state = "SCAN_STR_LOW_UNICODE" -> Scan_STR_LOW_UNICODE(L, ch)
      [] L.state = "SCAN_STR_HIGH_UNICODE" -> Scan_STR_HIGH_UNICODE(L, ch)
      [] L.state = "SCAN_NUMBER_BASE" -> Scan_NUMBER_BASE(L, ch)
      [] L.state = "SCAN_DECIMAL" -> Scan_DECIMAL(L, ch)
      [] L.state = "SCAN_HEX" -> Scan_HEX(L, ch)
      [] L.state = "SCAN_BINARY" -> Scan_BINARY(L, ch)
      [] L.state = "SCAN_OCTAL" -> Scan_OCTAL(L, ch)
      [] L.state = "SCAN_DECIMAL_FLOAT" -> Scan_DECIMAL_FLOAT(L, ch)
      [] L.state = "SCAN_DECIMAL_FRACTION" -> Scan_DECIMAL_FRACTION(L, ch)
      [] L.state = "SCAN_DECIMAL_EXPONENT_SIGN" ->
            ScanExponentSign(L, ch, "SCAN_DECIMAL_EXPONENT")
      [] L.state = "SCAN_DECIMAL_EXPONENT" -> Scan_DECIMAL_EXPONENT(L, ch)
      [] L.state = "SCAN_HEX_FLOAT" -> Scan_HEX_FLOAT(L, ch)
      [] L.state = "SCAN_HEX_FRACTION" -> Scan_HEX_FRACTION(L, ch)
      [] L.state = "SCAN_HEX_EXPONENT_SIGN" ->
            ScanExponentSign(L, ch, "SCAN_HEX_EXPONENT")
      [] L.state = "SCAN_HEX_EXPONENT" -> Scan_HEX_EXPONENT(L, ch)
      [] OTHER -> Stay(ERROR(L, "Internal: Unknown lexer state"))

\* if (ch == '\n') { line++; column = 1; } else column++;
CountByte(L, ch) ==
    IF ch = 10
    THEN [L EXCEPT !.line = @ + 1, !.column = 1, !.pos = @ + 1]
    ELSE [L EXCEPT !.column = @ + 1, !.pos = @ + 1]

\* BACK_UP where the pointer cannot step in front of the buffer (mutant)
BackUp_clamped(i) == IF i > 1 THEN i - 1 ELSE i

\* BACK_UP: buffer--, i being the index of the current byte in the buffer
BackUp(i) == i - 1

\* BACK_UP: if (ch == '\n') lexer->line--
BackUpLine(L, ch) ==
    IF ch = 10 THEN [L EXCEPT !.line = @ - 1, !.pos = @ - 1]
    ELSE [L EXCEPT !.pos = @ - 1]

\* for (char ch = *buffer; buffer < end; ch = (*++buffer)) { ... }
RECURSIVE ScanLoop(_, _, _)
ScanLoop(L, buffer, i) ==
    IF i > Len(buffer) \/ L.fault THEN L
    ELSE LET ch == buffer[i]
         IN  \* the lexer after this byte is computed once, as a value
             CHOOSE out \in
                 { IF r.backup
                   THEN ScanLoop(BackUpLine(r.L, ch), buffer, BackUp(i) + 1)
                   ELSE ScanLoop(r.L, buffer, i + 1) :
                   r \in {ScanByte(CountByte(L, ch), ch)} } : TRUE

\* void gcode_lexer_scan(GCodeLexer* lexer, const char* buffer, size_t length)
gcode_lexer_scan(L, buffer) == ScanLoop(L, buffer, 1)

\* gcode_lexer_finish scanning its newline in every state (mutant)
gcode_lexer_finish_always(L) == gcode_lexer_scan(L, <<10>>)

\* void gcode_lexer_finish(GCodeLexer* lexer)
gcode_lexer_finish(L) ==
    IF L.state # "SCAN_NEWLINE" THEN gcode_lexer_scan(L, <<10>>) ELSE L

-----------------------------------------------------------------------------
(* The interpreter (gcode_interpreter.c)                                   *)

\* gcode_interp_new: context and the error, lookup and serialize callbacks
\* are stored and the two buffers are empty; interp->exec is never assigned
\* and keeps what malloc left there
gcode_interp_new ==
    [field_buf   |-> "null",
     field_count |-> 0,
     field_limit |-> 0,
     str_buf     |-> "null",
     str_length  |-> 0,
     str_limit   |-> 0,
     exec        |-> "uninitialised",
     \* ghost: the texts in field_buf[0 .. field_count - 1], a store outside
     \* the block field_buf points to, the callbacks made, a memory fault
     fields      |-> << >>,
     wild        |-> FALSE,
     log         |-> << >>,
     fault       |-> FALSE,
     \* ghost: the gcode_interp_exec calls so far and what the last one was
     \* given, saw, did and returned
     execs       |-> 0,
     children    |-> 0,
     seen        |-> "GCODE_VAL_UNKNOWN",
     oom         |-> FALSE,
     entry_count |-> 0,
     entry_len   |-> 0,
     processed   |-> 0,
     delivered   |-> << >>,
     ret         |-> TRUE,
     \* ghost: the size of the block str_buf points to, the ranges of it
     \* handed out since the last reset, what the last
     \* gcode_interp_str_alloc was asked for and whether it returned a
     \* string, the number of its calls
     str_cap     |-> 0,
     handed      |-> << >>,
     asked       |-> -1,
     got         |-> FALSE,
     str_allocs  |-> 0]

\* gcode_val_type_t
ValTypes == {"GCODE_VAL_UNKNOWN", "GCODE_VAL_STR", "GCODE_VAL_BOOL",
             "GCODE_VAL_INT", "GCODE_VAL_FLOAT", "GCODE_VAL_DICT"}

\* interp->error(interp->context, args)
InterpError(I, msg) == [I EXCEPT !.log = Append(@, [k |-> "error", a |-> msg])]

\* static void reset(GCodeInterpreter* interp)
reset(I) ==
    [I EXCEPT !.field_count = 0, !.str_length = 0, !.fields = << >>,
              !.handed = << >>, !.asked = -1, !.got = FALSE]

\* what realloc can answer to str_expand
StrReallocOutcomes == {"null", "block"}

\* str_expand: both arms of the conditional give twice str_limit;
\* str_limit is never assigned, so the size asked of realloc is 0 and the
\* limit stays 0
str_expand(I, size, ra) ==
    LET room == SizeSub(I.str_limit, I.str_length)
        alloc_size == IF I.str_limit < size THEN I.str_limit + I.str_limit
                      ELSE I.str_limit * 2
    IN  IF ~room.wrap /\ room.val < size
        THEN IF ra = "null"
             THEN [I |-> InterpError([I EXCEPT !.str_buf = "null",
                                               !.str_cap = 0,
                                               !.str_length = 0],
                                     "Out of memory"),
                   ok |-> FALSE]
             ELSE [I |-> [I EXCEPT !.str_buf = "heap",
                                   !.str_cap = alloc_size],
                   ok |-> TRUE]
        ELSE [I |-> I, ok |-> TRUE]

\* gcode_interp_str_alloc(interp, size)
gcode_interp_str_alloc(I, size, ra) ==
    LET e == str_expand(I, size + 1, ra)
    IN  IF ~e.ok
        THEN [e.I EXCEPT !.asked = size, !.got = FALSE, !.str_allocs = @ + 1]
        ELSE [e.I EXCEPT !.str_allocs = @ + 1,
                         !.handed = Append(@, [from |-> e.I.str_length,
                                               len |-> size + 1,
                                               before |-> I.str_length]),
                         !.str_length = @ + size + 1,
                         !.asked = size,
                         !.got = TRUE]

\* eval: "TODO; return true": output is not written
eval(I, n, output) == [I |-> I, ok |-> TRUE, output |-> output]

\* serialize: the labels in the switch body lack the keyword case, so the
\* only case of the switch is default, whatever val->type is
serialize(I, val) ==
    [I |-> InterpError(I, "Internal: Unknown value type"), str |-> "null"]

\* what realloc can answer to buffer_field
FieldReallocOutcomes == {"null", "block"}

\* buffer_field: new_limit is 0 while field_limit is 0 and field_limit is
\* never assigned, so the block has no room for any field
buffer_field(I, text, ra) ==
    LET grow == I.field_count = I.field_limit
        I1   == IF grow THEN [I EXCEPT !.field_buf = IF ra = "null" THEN "null"
                                                    ELSE "heap"]
                ELSE I
    IN  IF grow /\ ra = "null"
        THEN [I |-> InterpError([I1 EXCEPT !.field_count = 0,
                                           !.field_limit = 0,
                                           !.fields = << >>], "Out of memory"),
              ok |-> FALSE]
        ELSE [I |-> [I1 EXCEPT !.fields = Append(@, text),
                               !.field_count = @ + 1,
                               !.wild = @ \/ I1.field_count >= I1.field_limit,
                               !.fault = @ \/ I1.field_buf = "null"],
              ok |-> TRUE]

\* what the call through the unassigned interp->exec can do: fault, or run
\* whatever the pointer happens to designate and return its answer
ExecOutcomes == {"fault", "true", "false"}

\* for (n = statement->children; n; n = n->next) { eval; serialize;
\* buffer_field }; t is what the never-written GCodeVal result holds
RECURSIVE FieldLoop(_, _, _, _)
FieldLoop(I, left, t, ra) ==
    IF left = 0 THEN [I |-> I, ok |-> TRUE]
    ELSE LET e == eval(I, left, t)
             s == serialize(e.I, e.output)
             b == buffer_field(s.I, s.str, ra)
             I1 == [e.I EXCEPT !.processed = @ + 1]
         IN  IF ~e.ok THEN [I |-> I1, ok |-> FALSE]
             ELSE IF s.str = "null"
             THEN [I |-> [s.I EXCEPT !.processed = @ + 1], ok |-> FALSE]
             ELSE IF ~b.ok
             THEN [I |-> [b.I EXCEPT !.processed = @ + 1], ok |-> FALSE]
             ELSE FieldLoop([b.I EXCEPT !.processed = @ + 1], left - 1, t, ra)

\* bool gcode_interp_exec(GCodeInterpreter* interp, statement) for a
\* statement with n children
gcode_interp_exec(I, n, t, ra, x) ==
    LET I0 == reset([I EXCEPT !.execs = @ + 1, !.children = n, !.seen = t,
                              !.oom = (ra = "null"),
                              !.processed = 0, !.delivered = << >>])
        I1 == [I0 EXCEPT !.entry_count = I0.field_count,
                         !.entry_len = I0.str_length]
        r  == FieldLoop(I1, n, t, ra)
    IN  IF ~r.ok THEN [r.I EXCEPT !.ret = FALSE]
        ELSE IF x = "fault" THEN [r.I EXCEPT !.fault = TRUE]
        ELSE [r.I EXCEPT !.ret = (x = "true")]

-----------------------------------------------------------------------------
(* The syntax tree (gcode_ast.h, gcode_ast.c)                              *)
(* A node pointer is Null, the number of a node, or Wild: a value that is  *)
(* not the address of a node.  malloc does not clear memory, so a field    *)
(* that a constructor does not assign holds an indeterminate value.        *)

Null == 0
Wild == -1

\* the constructors; gcode_str_new is defined in gcode_ast.h (the text is
\* stored behind the node) and again in gcode_ast.c (the text is a strdup)
NodeKinds == {"statement", "parameter", "str", "str_c", "bool", "int",
              "float", "operator", "function"}

\* gcode_node_type_t
NodeTypes == {"GCODE_UNKNOWN_NODE", "GCODE_STATEMENT", "GCODE_PARAMETER",
              "GCODE_STR", "GCODE_BOOL", "GCODE_INT", "GCODE_FLOAT",
              "GCODE_OPERATOR", "GCODE_FUNCTION"}

\* the tag of each variant
TagOf(kind) ==
    CASE kind = "statement" -> "GCODE_STATEMENT"
      [] kind = "parameter" -> "GCODE_PARAMETER"
      [] kind \in {"str", "str_c"} -> "GCODE_STR"
      [] kind = "bool" -> "GCODE_BOOL"
      [] kind = "int" -> "GCODE_INT"
      [] kind = "float" -> "GCODE_FLOAT"
      [] kind = "operator" -> "GCODE_OPERATOR"
      [] kind = "function" -> "GCODE_FUNCTION"

\* the structs with a children field
ParentKinds == {"statement", "operator", "function"}

\* the types gcode_add_child and gcode_is_parent_node accept
ParentTypes == {"GCODE_OPERATOR", "GCODE_FUNCTION", "GCODE_STATEMENT"}

\* a node: kind is the constructor that made it, text "heap" for a name or
\* value from strdup, "inline" for a value stored behind the node; frees and
\* textfrees count the calls of free on the node and on its text, owner is
\* the node it was linked to by the host (Null for a node the host holds)
MkNode(kind, type, next, children, text) ==
    [kind |-> kind, type |-> type, next |-> next, children |-> children,
     text |-> text, frees |-> 0, textfrees |-> 0, owner |-> Null]

NoNode == MkNode("none", "GCODE_UNKNOWN_NODE", Null, Null, "none")

\* no node allocated; garbage is what the memory malloc hands out holds
NoAst ==
    [heap |-> [i \in 1..MaxNodes |-> NoNode], count |-> 0, calls |-> 0,
     fault |-> "none",
     garbage |-> [type |-> "GCODE_UNKNOWN_NODE", next |-> Null],
     last |-> [op |-> "none", kind |-> "none", a |-> Null, b |-> Null,
               ret |-> Null, pre |-> [i \in 1..MaxNodes |-> NoNode]]]

\* values an unassigned type field may hold: zero, and the two tags that
\* no constructor assigns
GarbageTypes == {"GCODE_UNKNOWN_NODE", "GCODE_STATEMENT", "GCODE_PARAMETER"}

\* values an unassigned pointer field may hold: zero, or a value that is
\* not the address of a node
GarbagePointers == {Null, Wild}

\* gcode_statement_new(children): type and next are not assigned
gcode_statement_new(children, g) ==
    MkNode("statement", g.type, g.next, children, "none")

\* gcode_parameter_new(name): type and next are not assigned
gcode_parameter_new(g) == MkNode("parameter", g.type, g.next, Null, "heap")

\* gcode_str_new(value) of gcode_ast.h: next is not assigned
gcode_str_new(g) == MkNode("str", "GCODE_STR", g.next, Null, "inline")

\* gcode_str_new(text) of gcode_ast.c: next is not assigned
gcode_str_new_c(g) == MkNode("str_c", "GCODE_STR", g.next, Null, "heap")

\* gcode_bool_new(value): next is not assigned
gcode_bool_new(g) == MkNode("bool", "GCODE_BOOL", g.next, Null, "none")

\* gcode_int_new(value): next is not assigned
gcode_int_new(g) == MkNode("int", "GCODE_INT", g.next, Null, "none")

\* gcode_float_new(value): next is not assigned
gcode_float_new(g) == MkNode("float", "GCODE_FLOAT", g.next, Null, "none")

\* gcode_operator_new(type, children): next is not assigned
gcode_operator_new(children, g) ==
    MkNode("operator", "GCODE_OPERATOR", g.next, children, "none")

\* gcode_function_new(name, children): next is not assigned
gcode_function_new(children, g) ==
    MkNode("function", "GCODE_FUNCTION", g.next, children, "heap")

\* the call of one constructor
NewNode(kind, children, g) ==
    CASE kind = "statement" -> gcode_statement_new(children, g)
      [] kind = "parameter" -> gcode_parameter_new(g)
      [] kind = "str" -> gcode_str_new(g)
      [] kind = "str_c" -> gcode_str_new_c(g)
      [] kind = "bool" -> gcode_bool_new(g)
      [] kind = "int" -> gcode_int_new(g)
      [] kind = "float" -> gcode_float_new(g)
      [] kind = "operator" -> gcode_operator_new(children, g)
      [] kind = "function" -> gcode_function_new(children, g)

\* what the last call was: its arguments, its result, the heap before it
LastAst(A, op, kind, a, b, rv) ==
    [op |-> op, kind |-> kind, a |-> a, b |-> b, ret |-> rv, pre |-> A.heap]

\* the host links node c to node p
Own(h, c, p) == IF c = Null THEN h ELSE [h EXCEPT ![c].owner = p]

\* a constructor call: GCODE_AST_ALLOC returns NULL when malloc fails, and
\* so do the constructors that copy a string when strdup fails
Construct(A, kind, children, g, ok) ==
    IF ~ok THEN [A EXCEPT !.last = LastAst(A, "new", kind, children, Null, Null)]
    ELSE LET id == A.count + 1
         IN  [A EXCEPT !.heap = Own([A.heap EXCEPT
                                        ![id] = NewNode(kind, children, g)],
                                    children, id),
                       !.count = id,
                       !.last = LastAst(A, "new", kind, children, Null, id)]

\* while (n->next) n = n->next, started at node p: the node the loop stops
\* at.  A next field that is not the address of a node, or that of a freed
\* node, makes the loop read outside the nodes; a cycle makes it run on
RECURSIVE LastNode(_, _, _)
LastNode(h, p, fuel) ==
    IF p = Wild THEN [p |-> p, fault |-> "wild"]
    ELSE IF h[p].frees > 0 THEN [p |-> p, fault |-> "freed"]
    ELSE IF fuel = 0 THEN [p |-> p, fault |-> "hang"]
    ELSE IF h[p].next = Null THEN [p |-> p, fault |-> "none"]
    ELSE LastNode(h, h[p].next, fuel - 1)

\* gcode_add_next(sibling, child): the local sibling is advanced to the end
\* of the chain and that is what is returned
gcode_add_next(A, sibling, child) ==
    IF sibling = Null
    THEN [A EXCEPT !.last = LastAst(A, "add_next", "none", sibling, child,
                                    child)]
    ELSE LET l == LastNode(A.heap, sibling, MaxNodes)
         IN  IF l.fault # "none"
             THEN [A EXCEPT !.fault = l.fault,
                            !.last = LastAst(A, "add_next", "none", sibling,
                                             child, Null)]
             ELSE [A EXCEPT !.heap = Own([A.heap EXCEPT ![l.p].next = child],
                                         child, l.p),
                            !.last = LastAst(A, "add_next", "none", sibling,
                                             child, l.p)]

\* ((GCodeParentNode*)parent)->children: the field of a parent struct, for
\* the other structs the name, value or payload stored at that place
ChildrenSlot(n) == IF n.kind \in ParentKinds THEN n.children ELSE Wild

\* gcode_add_child(parent, child)
gcode_add_child(A, parent, child) ==
    LET same == [A EXCEPT !.last = LastAst(A, "add_child", "none", parent,
                                           child, parent)]
    IN  IF parent = Null \/ child = Null
           \/ A.heap[parent].type \notin ParentTypes
        THEN same
        ELSE IF ChildrenSlot(A.heap[parent]) = Null
        THEN [same EXCEPT !.heap = Own([A.heap EXCEPT
                                           ![parent].children = child],
                                       child, parent)]
        ELSE LET l == LastNode(A.heap, ChildrenSlot(A.heap[parent]), MaxNodes)
             IN  IF l.fault # "none" THEN [same EXCEPT !.fault = l.fault]
                 ELSE [same EXCEPT !.heap = Own([A.heap EXCEPT
                                                    ![l.p].next = child],
                                                child, l.p)]

\* free(p) of a node pointer
FreeNode(H, p) ==
    IF p = Null THEN H
    ELSE IF p = Wild THEN [H EXCEPT !.fault = "wild"]
    ELSE [H EXCEPT !.heap[p].frees = @ + 1]

\* free(((GCodeParameterNode*)node)->name), free(((GCodeStringNode*)node)
\* ->value): the field behind next.  It is the name or value of a parameter
\* or string, for a string of gcode_ast.h an address inside the node
\* itself, for a statement its children pointer
FreeText(H, p) ==
    LET n == H.heap[p]
    IN  IF n.kind \in ParentKinds THEN FreeNode(H, n.children)
        ELSE IF n.text = "heap" THEN [H EXCEPT !.heap[p].textfrees = @ + 1]
        ELSE [H EXCEPT !.fault = "badfree"]

\* free(((GCodeFunctionNode*)node)->name)
FreeName(H, p) ==
    IF H.heap[p].kind = "function"
    THEN [H EXCEPT !.heap[p].textfrees = @ + 1]
    ELSE [H EXCEPT !.fault = "badfree"]

\* gcode_node_delete(node): H is the heap and the fault so far
RECURSIVE gcode_node_delete(_, _, _)
gcode_node_delete(H, node, fuel) ==
    IF H.fault # "none" \/ node = Null THEN H
    ELSE IF node = Wild THEN [H EXCEPT !.fault = "wild"]
    ELSE IF H.heap[node].frees > 0 THEN [H EXCEPT !.fault = "freed"]
    ELSE IF fuel = 0 THEN [H EXCEPT !.fault = "hang"]
    ELSE LET type == H.heap[node].type
             H1 == CASE type \in {"GCODE_STATEMENT", "GCODE_OPERATOR"} ->
                          gcode_node_delete(H, ChildrenSlot(H.heap[node]),
                                            fuel - 1)
                      [] type \in {"GCODE_PARAMETER", "GCODE_STR"} ->
                          FreeText(H, node)
                      [] type = "GCODE_FUNCTION" ->
                          gcode_node_delete(FreeName(H, node),
                                            ChildrenSlot(H.heap[node]),
                                            fuel - 1)
                      [] OTHER -> H
             H2 == IF H1.fault # "none" THEN H1
                   ELSE IF H1.heap[node].frees > 0
                   THEN [H1 EXCEPT !.fault = "freed"]
                   ELSE gcode_node_delete(H1, H1.heap[node].next, fuel - 1)
         IN  IF H2.fault # "none" THEN H2 ELSE FreeNode(H2, node)

-----------------------------------------------------------------------------
(* The lookup callback of the bridge (gcode_bridge.c)                      *)

\* a GCodeVal: its type and the member of the union that is set
GCodeVal(type, val) == [type |-> type, val |-> val]

\* nothing looked up yet
NoLookup ==
    [result |-> GCodeVal("GCODE_VAL_UNKNOWN", "none"), calls |-> 0,
     key_str |-> "null", rv |-> "null", ret |-> FALSE]

\* what gcode_str_cast(interp, key) returns: the text of the key, or NULL
\* on a fatal error
StrCastOutcomes == {"null", "key"}

\* what gcode_python_lookup returns: NULL for no value, or a string
HostLookupOutcomes == {"null", "a", "b"}

\* interp_lookup(context, key, parent, result): result is written only
\* when the key has a text and the host returned a string
interp_lookup(R, key_str, rv) ==
    [result |-> IF key_str # "null" /\ rv # "null"
                THEN GCodeVal("GCODE_VAL_STR", rv) ELSE R,
     ret |-> TRUE]

-----------------------------------------------------------------------------
(* Handlers of the queue                                                   *)

Live == ~crashed /\ ~deleted

\* realloc is asked only when the ring is full
ReallocAnswers(q) == IF q.size = q.ring_size THEN ReallocOutcomes ELSE {"none"}

LastOfPush(op, q, e, ra, r, seen) ==
    [op |-> op, realloc |-> ra, grew |-> r.grew, move |-> r.move,
     dest |-> r.dest, oob |-> r.oob,
     pre_size |-> q.size, pre_pos |-> q.ring_pos, pre_cap |-> q.ring_size,
     entry |-> e.id, m112_seen |-> seen,
     \* statement->command was read after ring_entry_free(&entry) released
     \* the statement
     stale_read |-> op = "parse_statement" /\ r.dropped /\ e.need_free]

\* static void parse_error(void* context, const GCodeError* error)
ParseError ==
    /\ Live
    /\ nextId <= MaxPush
    /\ KindOf(nextId) \in {"error", "oom_error"}
    /\ \E ra \in ReallocAnswers(queue) :
         LET e == MkEntry(nextId, KindOf(nextId))
             r == ring_add(queue, e, ra)
         IN  \E c \in (IF r.ub /\ ~r.fault THEN BOOLEAN ELSE {FALSE}) :
               /\ queue' = r.q
               /\ crashed' = (r.fault \/ c)
               /\ fatal_calls' = fatal_calls + (IF r.fatal THEN 1 ELSE 0)
               /\ freed' = IF r.dropped THEN ring_entry_free(freed, e) ELSE freed
               /\ accepted' = IF r.dropped THEN accepted
                              ELSE Append(accepted, e.id)
               /\ ret' = IF r.fault \/ c THEN ret ELSE r.q.size
               /\ last' = LastOfPush("parse_error", queue, e, ra, r, FALSE)
    /\ nextId' = nextId + 1
    /\ UNCHANGED <<deleted, result, m112_calls, interp_calls, script, popped>>
    /\ UNCHANGED lvars
    /\ UNCHANGED ivars

\* static bool parse_statement(void* context, GCodeStatementNode* statement):
\* ring_add(queue, e), then strcmp(statement->command, "M112").  When
\* ring_add released the statement the comparison reads released storage and
\* may come out either way.
ParseStatement ==
    /\ Live
    /\ nextId <= MaxPush
    /\ KindOf(nextId) \in {"stmt", "m112"}
    /\ \E ra \in ReallocAnswers(queue) :
         LET e == MkEntry(nextId, KindOf(nextId))
             r == ring_add(queue, e, ra)
         IN  \E c \in (IF r.ub /\ ~r.fault THEN BOOLEAN ELSE {FALSE}) :
             \E seen \in (IF r.fault \/ c THEN {FALSE}
                          ELSE IF r.dropped THEN BOOLEAN ELSE {e.m112}) :
               /\ queue' = r.q
               /\ crashed' = (r.fault \/ c)
               /\ fatal_calls' = fatal_calls + (IF r.fatal THEN 1 ELSE 0)
               /\ freed' = IF r.dropped THEN ring_entry_free(freed, e) ELSE freed
               /\ accepted' = IF r.dropped THEN accepted
                              ELSE Append(accepted, e.id)
               /\ m112_calls' = m112_calls + (IF seen THEN 1 ELSE 0)
               /\ ret' = IF r.fault \/ c THEN ret ELSE r.q.size
               /\ last' = LastOfPush("parse_statement", queue, e, ra, r, seen)
    /\ nextId' = nextId + 1
    /\ UNCHANGED <<deleted, result, interp_calls, script, popped>>
    /\ UNCHANGED lvars
    /\ UNCHANGED ivars

\* the GCodePyResult exec_next fills in; ref names the resource the text
\* pointer refers to (0: static text or interpreter storage)
ResultOf(entry, gr) ==
    IF entry.is_error
    THEN [type |-> "GCODE_PY_ERROR", ref |-> entry.id]
    ELSE IF gr = "GCODE_RESULT_COMMAND"
    THEN [type |-> "GCODE_PY_COMMAND", ref |-> 0]
    ELSE [type |-> "GCODE_PY_ERROR", ref |-> 0]

\* size_t gcode_queue_exec_next(GCodeQueue* queue, GCodePyResult* result)
ExecNext ==
    /\ Live
    /\ IF QueueEmpty(queue)
       THEN /\ result' = [type |-> "GCODE_PY_EMPTY", ref |-> 0]
            /\ ret' = 0
            /\ last' = [NoLast EXCEPT !.op = "exec_next",
                                      !.pre_size = queue.size,
                                      !.pre_pos = queue.ring_pos,
                                      !.pre_cap = queue.ring_size]
            /\ UNCHANGED <<queue, interp_calls, freed, popped>>
       ELSE LET slot  == queue.ring_pos % queue.ring_size
                entry == ReadSlot(queue, slot)
            IN  \E gr \in (IF entry.is_error THEN {"none"} ELSE InterpResults) :
                  /\ result' = ResultOf(entry, gr)
                  /\ interp_calls' = interp_calls
                                     + (IF entry.is_error THEN 0 ELSE 1)
                  /\ freed' = ring_entry_free(freed, ReadSlot(queue, slot))
                  /\ queue' = PopQueue(queue)
                  /\ popped' = Append(popped, entry.id)
                  /\ ret' = queue.size - 1
                  /\ last' = [NoLast EXCEPT !.op = "exec_next",
                                            !.pre_size = queue.size,
                                            !.pre_pos = queue.ring_pos,
                                            !.pre_cap = queue.ring_size,
                                            !.entry = entry.id]
    /\ UNCHANGED <<crashed, deleted, fatal_calls, m112_calls, script, nextId,
                   accepted>>
    /\ UNCHANGED lvars
    /\ UNCHANGED ivars

\* void gcode_queue_delete(GCodeQueue* queue)
QueueDelete ==
    /\ Live
    /\ freed' = FreeSlots(freed, queue, DeleteSlots(queue))
    /\ deleted' = TRUE
    /\ last' = [NoLast EXCEPT !.op = "delete",
                              !.pre_size = queue.size,
                              !.pre_pos = queue.ring_pos,
                              !.pre_cap = queue.ring_size]
    /\ UNCHANGED <<queue, crashed, result, ret, fatal_calls, m112_calls,
                   interp_calls, script, nextId, accepted, popped>>
    /\ UNCHANGED lvars
    /\ UNCHANGED ivars

\* no function applied yet
NoProbe == [ch |-> 0, done |-> FALSE, digit |-> -1]

\* the interpreter after gcode_interp_new, and nothing probed
InterpIdle ==
    /\ interp = gcode_interp_new
    /\ probe = NoProbe
    /\ ast = NoAst
    /\ lk = NoLookup

\* the lexer after gcode_lexer_new, nothing given to it
LexIdle ==
    /\ lexer = gcode_lexer_new
    /\ input = << >>
    /\ fed = 0
    /\ cbfail = {}
    /\ lexop = "new"
    /\ splits = {}
    /\ allocfail = {}
    /\ resets = << >>

\* the queue after gcode_queue_new
QueueInit ==
    /\ queue = gcode_queue_new
    /\ crashed = FALSE
    /\ deleted = FALSE
    /\ result = NoResult
    /\ ret = 0
    /\ fatal_calls = 0
    /\ m112_calls = 0
    /\ interp_calls = 0
    /\ freed = [id \in 1..MaxPush |-> 0]
    /\ nextId = 1
    /\ accepted = << >>
    /\ popped = << >>
    /\ last = NoLast

Init ==
    /\ QueueInit
    /\ InterpIdle
    /\ script \in [1..ScriptLen -> EntryKinds]
    /\ LexIdle

Next ==
    \/ ParseError
    \/ ParseStatement
    \/ ExecNext
    \/ QueueDelete

Spec == Init /\ [][Next]_vars

-----------------------------------------------------------------------------
(* The lexer fed a byte sequence in chunks                                 *)

\* 'N', 'g', ' ', ';', '{', '\n'
Alphabet == {78, 103, 32, 59, 123, 10}

LexInit ==
    /\ QueueInit
    /\ InterpIdle
    /\ script = [i \in 1..ScriptLen |-> "stmt"]
    /\ lexer = gcode_lexer_new
    /\ input \in [1..MaxLen -> Alphabet]
    /\ fed = 0
    /\ cbfail \in SUBSET (1..MaxFail)
    /\ lexop = "new"
    /\ splits = {}
    /\ allocfail = {}
    /\ resets = << >>

\* gcode_lexer_scan(lexer, B + fed, n): the next n bytes of B
LexScan ==
    /\ lexop \in {"new", "scan", "reset"}
    /\ ~lexer.fault
    /\ \E n \in 1..(Len(input) - fed) :
          /\ lexer' = gcode_lexer_scan(lexer, SubSeq(input, fed + 1, fed + n))
          /\ fed' = fed + n
          /\ splits' = IF fed + n < Len(input) THEN splits \cup {fed + n}
                       ELSE splits
    /\ lexop' = "scan"
    /\ UNCHANGED <<input, cbfail, allocfail, resets>>
    /\ UNCHANGED qvars
    /\ UNCHANGED ivars

\* gcode_lexer_finish(lexer), after which the host scans no more
LexFinish ==
    /\ lexop \in {"new", "scan", "reset"}
    /\ ~lexer.fault
    /\ lexer' = gcode_lexer_finish(lexer)
    /\ lexop' = "finish"
    /\ UNCHANGED <<input, fed, cbfail, splits, allocfail, resets>>
    /\ UNCHANGED qvars
    /\ UNCHANGED ivars

LexNext ==
    \/ LexScan
    \/ LexFinish

LexSpec == LexInit /\ [][LexNext]_vars

-----------------------------------------------------------------------------
(* The lexer fed arbitrary bytes, with token allocations that may fail     *)

\* 'g', ' ', ';', '{', '\n', NUL, 0xff, '}', ')', '1'
Bytes == {103, 32, 59, 123, 10, 0, 255, 125, 41, 49}

ByteInit ==
    /\ QueueInit
    /\ InterpIdle
    /\ script = [i \in 1..ScriptLen |-> "stmt"]
    /\ lexer = gcode_lexer_new
    /\ input \in [1..MaxLen -> Bytes]
    /\ fed = 0
    /\ cbfail = {}
    /\ lexop = "new"
    /\ splits = {}
    /\ allocfail \in SUBSET (1..MaxAlloc)
    /\ resets = << >>

ByteSpec == ByteInit /\ [][LexNext]_vars

-----------------------------------------------------------------------------
(* The lexer given one line that opens an expression                       *)

\* '{', '}', '(', ')', '+', '.', 'g', ' '
ExprBytes == {123, 125, 40, 41, 43, 46, 103, 32}

\* "922337203685477580": INT64_MAX is 9223372036854775807
DecimalHead ==
    <<57, 50, 50, 51, 51, 55, 50, 48, 51, 54, 56, 53, 52, 55, 55, 53, 56, 48>>

\* '{', the eighteen digits, then two of '7', '8', ' '
DecimalLines ==
    {<<123>> \o DecimalHead \o t : t \in [1..2 -> {55, 56, 32}]}

\* '{', '"', '\\', three of '1', '7', '8', '"', then '"'
StringLines ==
    {<<123, 34, 92>> \o t \o <<34>> : t \in [1..3 -> {49, 55, 56, 34}]}

ExprInit ==
    /\ QueueInit
    /\ InterpIdle
    /\ script = [i \in 1..ScriptLen |-> "stmt"]
    /\ lexer = gcode_lexer_new
    /\ input \in {<<123>> \o t : t \in [1..(ExprLen - 1) -> ExprBytes]}
                  \cup DecimalLines \cup StringLines
    /\ fed = 0
    /\ cbfail = {}
    /\ lexop = "new"
    /\ splits = {}
    /\ allocfail = {}
    /\ resets = << >>

\* gcode_lexer_scan(lexer, B, length of B)
LexScanAll ==
    /\ lexop = "new"
    /\ lexer' = gcode_lexer_scan(lexer, input)
    /\ fed' = Len(input)
    /\ lexop' = "scan"
    /\ UNCHANGED <<input, cbfail, splits, allocfail, resets>>
    /\ UNCHANGED qvars
    /\ UNCHANGED ivars

ExprNext ==
    \/ LexScanAll
    \/ LexFinish

ExprSpec == ExprInit /\ [][ExprNext]_vars

-----------------------------------------------------------------------------
(* The lexer given a word that fills the first token allocation            *)

\* TOKEN_LIMIT_INIT times 'g'
LongWord == [i \in 1..TOKEN_LIMIT_INIT |-> 103]

\* the long word, then two of 'g', ' ', '\n', ';', '{'
LongLines == {LongWord \o t : t \in [1..2 -> {103, 32, 10, 59, 123}]}

\* the malloc of the token and the realloc that doubles it may each fail
LongInit ==
    /\ QueueInit
    /\ InterpIdle
    /\ script = [i \in 1..ScriptLen |-> "stmt"]
    /\ lexer = gcode_lexer_new
    /\ input \in LongLines
    /\ fed = 0
    /\ cbfail = {}
    /\ lexop = "new"
    /\ splits = {}
    /\ allocfail \in SUBSET (1..(MaxAlloc + 1))
    /\ resets = << >>

\* gcode_lexer_scan(lexer, B + fed, n): the next ChunkLen bytes of B, or
\* the rest of B when it is shorter
LexScanChunk ==
    /\ lexop \in {"new", "scan"}
    /\ ~lexer.fault
    /\ fed < Len(input)
    /\ LET n == IF Len(input) - fed < ChunkLen THEN Len(input) - fed
                ELSE ChunkLen
       IN  /\ lexer' = gcode_lexer_scan(lexer,
                                        SubSeq(input, fed + 1, fed + n))
           /\ fed' = fed + n
           /\ splits' = IF fed + n < Len(input) THEN splits \cup {fed + n}
                        ELSE splits
    /\ lexop' = "scan"
    /\ UNCHANGED <<input, cbfail, allocfail, resets>>
    /\ UNCHANGED qvars
    /\ UNCHANGED ivars

\* gcode_lexer_finish(lexer) once all of B has been given
LexFinishAll ==
    /\ fed = Len(input)
    /\ LexFinish

LongNext ==
    \/ LexScanChunk
    \/ LexFinishAll

LongSpec == LongInit /\ [][LongNext]_vars

-----------------------------------------------------------------------------
(* The interpreter given statements                                        *)

InterpInit ==
    /\ QueueInit
    /\ InterpIdle
    /\ script = [i \in 1..ScriptLen |-> "stmt"]
    /\ LexIdle

\* gcode_interp_exec(interp, statement)
InterpExec ==
    /\ ~interp.fault
    /\ interp.execs < MaxExec
    /\ \E n \in 0..MaxFields : \E t \in ValTypes :
       \E ra \in FieldReallocOutcomes : \E x \in ExecOutcomes :
          interp' = gcode_interp_exec(interp, n, t, ra, x)
    /\ UNCHANGED <<probe, ast, lk>>
    /\ UNCHANGED qvars
    /\ UNCHANGED lvars

\* gcode_interp_str_alloc(interp, size)
InterpStrAlloc ==
    /\ ~interp.fault
    /\ interp.str_allocs <= MaxStr
    /\ \E size \in 0..MaxStr : \E ra \in StrReallocOutcomes :
          interp' = gcode_interp_str_alloc(interp, size, ra)
    /\ UNCHANGED <<probe, ast, lk>>
    /\ UNCHANGED qvars
    /\ UNCHANGED lvars

InterpNext ==
    \/ InterpExec
    \/ InterpStrAlloc

InterpSpec == InterpInit /\ [][InterpNext]_vars

-----------------------------------------------------------------------------
(* hex_digit_to_int applied to every value of a byte                       *)

HexInit ==
    /\ QueueInit
    /\ script = [i \in 1..ScriptLen |-> "stmt"]
    /\ LexIdle
    /\ interp = gcode_interp_new
    /\ ast = NoAst
    /\ lk = NoLookup
    /\ probe \in {[NoProbe EXCEPT !.ch = c] : c \in 0..255}

\* digit_value = hex_digit_to_int(ch)
HexDigit ==
    /\ ~probe.done
    /\ probe' = [probe EXCEPT !.done = TRUE, !.digit = hex_digit_to_int(probe.ch)]
    /\ UNCHANGED <<interp, ast, lk>>
    /\ UNCHANGED qvars
    /\ UNCHANGED lvars

HexSpec == HexInit /\ [][HexDigit]_vars

-----------------------------------------------------------------------------
(* The host builds, links and deletes syntax tree nodes                    *)

\* the memory malloc hands out holds one of the indeterminate values
AstInit ==
    /\ QueueInit
    /\ interp = gcode_interp_new
    /\ probe = NoProbe
    /\ lk = NoLookup
    /\ ast \in {[NoAst EXCEPT !.garbage = g] :
                   g \in [type : GarbageTypes, next : GarbagePointers]}
    /\ script = [i \in 1..ScriptLen |-> "stmt"]
    /\ LexIdle

\* the nodes that have not been freed
LiveNodes(A) == {i \in 1..A.count : A.heap[i].frees = 0}

\* the nodes the host holds: not freed and not linked to another node
Roots(A) == {i \in LiveNodes(A) : A.heap[i].owner = Null}

\* the node held by the host from which node p was linked
RECURSIVE RootUp(_, _, _)
RootUp(h, p, fuel) ==
    IF h[p].owner = Null \/ fuel = 0 THEN p
    ELSE RootUp(h, h[p].owner, fuel - 1)

RootOf(h, p) == RootUp(h, p, MaxNodes)

\* the values a constructor leaves in the fields it does not assign
Garbage(A, kind) ==
    [type |-> IF kind \in {"statement", "parameter"} THEN A.garbage.type
              ELSE TagOf(kind),
     next |-> A.garbage.next]

\* n = gcode_<kind>_new(...) for one of the kinds, children being a chain
\* the host holds
AstNewOf(kinds) ==
    /\ ast.fault = "none"
    /\ ast.count < MaxNodes
    /\ \E kind \in kinds : \E ok \in BOOLEAN :
       \E children \in (IF kind \in ParentKinds THEN Roots(ast) ELSE {})
                        \cup {Null} :
          ast' = Construct(ast, kind, children, Garbage(ast, kind), ok)
    /\ UNCHANGED <<interp, probe, lk>>
    /\ UNCHANGED qvars
    /\ UNCHANGED lvars

\* gcode_add_next(sibling, child): child is a node the host holds, or NULL
AstAddNext ==
    /\ ast.fault = "none"
    /\ ast.calls < MaxCalls
    /\ \E sibling \in LiveNodes(ast) \cup {Null} :
       \E child \in Roots(ast) \cup {Null} :
          /\ sibling # Null /\ child # Null =>
                child # RootOf(ast.heap, sibling)
          /\ ast' = [gcode_add_next(ast, sibling, child)
                        EXCEPT !.calls = @ + 1]
    /\ UNCHANGED <<interp, probe, lk>>
    /\ UNCHANGED qvars
    /\ UNCHANGED lvars

\* gcode_add_child(parent, child): child is a node the host holds, or NULL
AstAddChild ==
    /\ ast.fault = "none"
    /\ ast.calls < MaxCalls
    /\ \E parent \in LiveNodes(ast) \cup {Null} :
       \E child \in Roots(ast) \cup {Null} :
          /\ parent # Null /\ child # Null =>
                child # RootOf(ast.heap, parent)
          /\ ast' = [gcode_add_child(ast, parent, child)
                        EXCEPT !.calls = @ + 1]
    /\ UNCHANGED <<interp, probe, lk>>
    /\ UNCHANGED qvars
    /\ UNCHANGED lvars

\* gcode_node_delete(node) on a node the host holds, or on NULL
AstDelete ==
    /\ ast.fault = "none"
    /\ ast.calls < MaxCalls
    /\ \E node \in Roots(ast) \cup {Null} :
          LET H == gcode_node_delete(ast, node, MaxNodes)
          IN  ast' = [H EXCEPT !.calls = @ + 1,
                               !.last = LastAst(ast, "delete", "none", node,
                                                Null, Null)]
    /\ UNCHANGED <<interp, probe, lk>>
    /\ UNCHANGED qvars
    /\ UNCHANGED lvars

\* a call of any constructor
AstNew == AstNewOf(NodeKinds)

\* the kinds of node the host builds trees of: one for each case of the
\* switch of gcode_node_delete, and one it has no case for
TreeKinds ==
    {"statement", "parameter", "str", "int", "operator", "function"}

\* a call of a constructor of a tree node
AstBuild == AstNewOf(TreeKinds)

AstNewSpec == AstInit /\ [][AstNew]_vars

AstNext ==
    \/ AstBuild
    \/ AstAddNext
    \/ AstAddChild
    \/ AstDelete

AstSpec == AstInit /\ [][AstNext]_vars

-----------------------------------------------------------------------------
(* The interpreter calls the lookup callback of the bridge                 *)

\* the result the caller passes holds the value of an earlier evaluation
LookupInit ==
    /\ QueueInit
    /\ interp = gcode_interp_new
    /\ probe = NoProbe
    /\ ast = NoAst
    /\ lk \in {[NoLookup EXCEPT !.result = GCodeVal(t, v)] :
                  t \in ValTypes, v \in {"none", "old"}}
    /\ script = [i \in 1..ScriptLen |-> "stmt"]
    /\ LexIdle

\* interp->lookup(interp->context, key, parent, &result)
Lookup ==
    /\ lk.calls < MaxLookups
    /\ \E key_str \in StrCastOutcomes : \E rv \in HostLookupOutcomes :
          LET r == interp_lookup(lk.result, key_str, rv)
          IN  lk' = [result |-> r.result, calls |-> lk.calls + 1,
                     key_str |-> key_str, rv |-> rv, ret |-> r.ret]
    /\ UNCHANGED <<interp, probe, ast>>
    /\ UNCHANGED qvars
    /\ UNCHANGED lvars

LookupSpec == LookupInit /\ [][Lookup]_vars

-----------------------------------------------------------------------------
(* The lexer finished more than once, and reset and fed B again            *)

\* gcode_lexer_finish(lexer) called again right after gcode_lexer_finish
LexFinishAgain ==
    /\ lexop = "finish"
    /\ ~lexer.fault
    /\ lexer' = gcode_lexer_finish(lexer)
    /\ lexop' = "refinish"
    /\ UNCHANGED <<input, fed, cbfail, splits, allocfail, resets>>
    /\ UNCHANGED qvars
    /\ UNCHANGED ivars

\* gcode_lexer_reset(lexer) after the bytes given so far; the host then
\* gives B from its first byte.  log and pos restart with the reset.
LexReset ==
    /\ lexop \in {"scan", "finish"}
    /\ resets = << >>
    /\ ~lexer.fault
    /\ lexer' = [gcode_lexer_reset(lexer) EXCEPT !.log = << >>, !.pos = 0]
    /\ resets' = Append(resets, lexer.state)
    /\ fed' = 0
    /\ splits' = {}
    /\ lexop' = "reset"
    /\ UNCHANGED <<input, cbfail, allocfail>>
    /\ UNCHANGED qvars
    /\ UNCHANGED ivars

ResetNext ==
    \/ LexScan
    \/ LexFinish
    \/ LexFinishAgain
    \/ LexReset

ResetSpec == LexInit /\ [][ResetNext]_vars

-----------------------------------------------------------------------------
(* Claims about the queue                                                  *)

Range(f) == {f[x] : x \in DOMAIN f}

\* C1: entries are popped in exactly the order they were pushed, across
\* wrap-around and capacity doublings; none is lost, duplicated or reordered:
\* the popped entries followed by the pending ones are the entries handed to
\* ring_add (those dropped by a failed growth aside).
C1_FifoAcrossGrowth ==
    ~deleted => popped \o PendingIds(queue) = accepted

\* C2: a push that finds the ring full with ring_pos > 0 relocates exactly
\* the ring_pos wrapped entries to old_capacity .. old_capacity+ring_pos-1,
\* the count is within 0 .. old capacity, nothing outside the enlarged ring
\* is written, and the pending sequence is the old one plus the new entry.
C2_GrowRelocatesWrapped ==
    (last.grew /\ last.pre_pos > 0) =>
        /\ ~last.move.wrap
        /\ last.move.val = last.pre_pos
        /\ last.move.val \in 0..last.pre_cap
        /\ last.dest = last.pre_cap
        /\ ~last.oob
        /\ ~crashed
        /\ popped \o PendingIds(queue) = accepted

\* C3: exec_next on a queue with no pending entries sets the result type to
\* Empty, returns 0, does not call the interpreter and leaves size, ring_pos,
\* capacity and ring contents unchanged.
C3_ExecNextEmpty ==
    [][(last'.op = "exec_next" /\ queue.size = 0) =>
          /\ result'.type = "GCODE_PY_EMPTY"
          /\ ret' = 0
          /\ interp_calls' = interp_calls
          /\ queue' = queue
          /\ freed' = freed
          /\ popped' = popped]_vars

C3_Witness ==
    /\ last.op = "exec_next"
    /\ last.pre_size = 0
    /\ result.type = "GCODE_PY_EMPTY"
    /\ queue.ring_pos > 0
    /\ Len(popped) > 0

\* C4: with n >= 1 pending entries exec_next removes exactly the head entry
\* and returns n-1, whatever the entry is (parse error, command, failed
\* evaluation); a call that returns 0 leaves the queue drained.
C4_ExecNextPopsHead ==
    [][(last'.op = "exec_next" /\ queue.size >= 1) =>
          /\ queue'.size = queue.size - 1
          /\ ret' = queue.size - 1
          /\ popped' = Append(popped, Head(PendingIds(queue)))
          /\ PendingIds(queue') = Tail(PendingIds(queue))
          /\ queue'.ring_size = queue.ring_size
          /\ result'.type \in {"GCODE_PY_ERROR", "GCODE_PY_COMMAND"}
          /\ (ret' = 0 => queue'.size = 0)]_vars

C4_Witness ==
    /\ last.op = "exec_next"
    /\ last.pre_size >= 1
    /\ queue.size = 0
    /\ Len(popped) > RingInitSize
    /\ result.type = "GCODE_PY_ERROR"
    /\ last.entry >= 1 /\ KindOf(last.entry) = "stmt"

\* C5: the owned resource of every popped entry has been released exactly
\* once when exec_next returns and is never released again by a later
\* exec_next or by gcode_queue_delete; the static out-of-memory text
\* (need_free false) is never freed.
C5_PoppedReleasedOnce ==
    /\ \A k \in 1..Len(popped) :
          /\ popped[k] >= 1
          /\ freed[popped[k]] = IF KindOf(popped[k]) = "oom_error" THEN 0 ELSE 1
    /\ \A id \in 1..MaxPush : KindOf(id) = "oom_error" => freed[id] = 0

C5_Witness ==
    /\ deleted
    /\ queue.size > 0
    /\ \E k \in 1..Len(popped) : KindOf(popped[k]) = "oom_error"
    /\ \E k \in 1..Len(popped) : KindOf(popped[k]) = "stmt"

\* C6: every parsed statement named M112 triggers the m112 callback exactly
\* once, at parse time, and is enqueued at its FIFO position (unless a failed
\* growth dropped it); a statement with another name never triggers it.
C6_M112OncePerStatement ==
    /\ m112_calls = Cardinality({id \in 1..(nextId - 1) : KindOf(id) = "m112"})
    /\ \A id \in 1..(nextId - 1) :
          (KindOf(id) = "m112" /\ id \in Range(accepted) /\ ~deleted)
             => id \in Range(popped \o PendingIds(queue))

\* C7: when enlarging the ring fails, ring_add calls the fatal callback
\* exactly once, frees the incoming entry's owned resource, stores nothing
\* and leaves size, ring_pos, capacity and the pending entries unchanged, so
\* that they are still popped in FIFO order.
C7_FailedGrowthDropsEntry ==
    [][(last'.op \in {"parse_error", "parse_statement"}
        /\ last'.realloc = "fail") =>
          /\ fatal_calls' = fatal_calls + 1
          /\ \A id \in 1..MaxPush :
                freed'[id] = freed[id]
                    + (IF id = nextId /\ KindOf(id) # "oom_error" THEN 1 ELSE 0)
          /\ queue' = queue
          /\ accepted' = accepted
          /\ popped' = popped
          /\ ~crashed'
          /\ popped' \o PendingIds(queue') = accepted']_vars

C7_Witness ==
    /\ fatal_calls >= 1
    /\ last.op = "exec_next"
    /\ last.entry >= 1
    /\ last.pre_size = RingInitSize

\* C8: gcode_queue_delete releases every pending entry exactly once and no
\* slot that holds no pending entry, for every ring_pos and size, also when
\* the pending range wraps around the end of the ring.
C8_DeleteReleasesPending ==
    [][(last'.op = "delete") =>
          \A id \in 1..MaxPush :
             /\ freed'[id] = freed[id]
                   + (IF id \in Range(PendingIds(queue))
                         /\ KindOf(id) # "oom_error" THEN 1 ELSE 0)
             /\ freed'[id] <= 1]_vars

C8_Witness ==
    /\ deleted
    /\ last.op = "delete"
    /\ last.pre_size > 1
    /\ last.pre_pos + last.pre_size > last.pre_cap
    /\ \E id \in 1..MaxPush : freed[id] = 1 /\ id \in Range(PendingIds(queue))

-----------------------------------------------------------------------------
(* Claims about the lexer                                                  *)

\* the bytes of B given to the lexer so far
Given == SubSeq(input, 1, fed)

\* C9: however B is split into chunks for successive gcode_lexer_scan
\* calls, the callbacks made (kind, argument, location, in order) and the
\* lexer state are those of one scan of the same bytes; the same holds
\* after gcode_lexer_finish.
C9_ChunkInvariance ==
    LET whole == gcode_lexer_scan(gcode_lexer_new, Given)
    IN  lexer = IF lexop = "finish" THEN gcode_lexer_finish(whole) ELSE whole

\* B = <<'\n', 'g', 'g'>>-like input given one byte at a time: one chunk
\* ends right before a byte that is backed up (first byte of a statement),
\* one inside a word, and the word has been reported.
C9_Witness ==
    /\ lexop = "finish"
    /\ fed = Len(input)
    /\ \E p \in splits :
          /\ input[p] = 10
          /\ input[p + 1] = 103
          /\ p + 1 \in splits
          /\ input[p + 2] = 103
    /\ \E i \in DOMAIN lexer.log :
          lexer.log[i].k = "str_literal" /\ lexer.log[i].a = <<71, 71>>

TokenCallbacks == {"keyword", "identifier", "str_literal", "int_literal",
                   "float_literal", "bridge", "end_of_statement"}

\* the p-th byte the lexer was given: a byte of B, or the newline that
\* gcode_lexer_finish appends
ByteAt(p) == IF p <= fed THEN input[p] ELSE 10

\* a newline byte was consumed at one of the positions from..to
NewlineConsumed(from, to) == \E p \in from..to : ByteAt(p) = 10

\* C10: once a token callback has answered false, no callback is made
\* before a newline byte has been consumed, and until then the lexer is in
\* the error-recovery state SCAN_ERROR.
C10_FalseEntersRecovery ==
    LET log == lexer.log
    IN  \A i \in DOMAIN log :
          (log[i].k \in TokenCallbacks /\ ~log[i].ok) =>
             /\ \A j \in (i + 1)..Len(log) :
                   NewlineConsumed(log[i].at, log[j].at - 1)
             /\ (i = Len(log) /\ ~NewlineConsumed(log[i].at + 1, lexer.pos))
                   => lexer.state = "SCAN_ERROR"

\* what the host sees of a callback: its kind and its argument
Seen(log) == [i \in DOMAIN log |-> <<log[i].k, log[i].a>>]

\* the callbacks made while the bytes after position q were processed
LogAfter(q) == SelectSeq(lexer.log, LAMBDA e : e.at > q)

\* the bytes the lexer was given after position q
GivenAfter(q) == [i \in 1..(lexer.pos - q) |-> ByteAt(q + i)]

\* the first newline at or after position from
FirstNewline(from) ==
    CHOOSE p \in from..lexer.pos :
        ByteAt(p) = 10 /\ \A r \in from..(p - 1) : ByteAt(r) # 10

\* a lexer just constructed, with memory available to it
FreshLexer == [gcode_lexer_new EXCEPT !.allocs = MaxAlloc]

\* C11: once the newline that ends a line on which an error was raised has
\* been consumed, the lexer carries on as a fresh lexer would on the bytes
\* that follow: it has not faulted, it is in the state the fresh lexer is in
\* and it has made the callbacks the fresh lexer makes.
C11_ErrorRecoversAtNewline ==
    \A i \in DOMAIN lexer.log :
        (lexer.log[i].k = "error"
            /\ NewlineConsumed(lexer.log[i].at, lexer.pos)) =>
        LET q     == FirstNewline(lexer.log[i].at)
            fresh == gcode_lexer_scan(FreshLexer, GivenAfter(q))
        IN  /\ ~lexer.fault
            /\ lexer.state = fresh.state
            /\ lexer.token = fresh.token
            /\ Seen(LogAfter(q)) = Seen(fresh.log)

IsLine(s, e) ==
    /\ 1 <= s /\ s <= e /\ e <= lexer.pos
    /\ s = 1 \/ ByteAt(s - 1) = 10
    /\ ByteAt(e) = 10
    /\ \A p \in s..(e - 1) : ByteAt(p) # 10

\* the callbacks made while the bytes s .. e were processed
LogOf(s, e) == SelectSeq(lexer.log, LAMBDA x : x.at >= s /\ x.at <= e)

\* the line s .. e is whitespace only, or whitespace and then a comment
BlankOrComment(s, e) ==
    \/ \A p \in s..(e - 1) : IsSpace(ByteAt(p))
    \/ \E c \in s..(e - 1) :
          ByteAt(c) = 59 /\ \A p \in s..(c - 1) : IsSpace(ByteAt(p))

\* the line s .. e has a word starting at w (not a line number) and a
\* comment starting at c behind it, with no '{' in front of the comment
WordThenComment(s, e, w, c) ==
    /\ s <= w /\ w < c /\ c < e
    /\ \A p \in s..(w - 1) : IsSpace(ByteAt(p))
    /\ ~IsSpace(ByteAt(w)) /\ ByteAt(w) \notin {59, 123, 78, 110}
    /\ ByteAt(c) = 59
    /\ \A p \in w..(c - 1) : ByteAt(p) \notin {59, 123}

WordByte(ch) == ~IsSpace(ch) /\ ch \notin {59, 123, 10}

\* the first byte of the line that position p is on
LineStart(p) ==
    CHOOSE s \in 1..p :
        (s = 1 \/ ByteAt(s - 1) = 10) /\ \A r \in s..(p - 1) : ByteAt(r) # 10

\* a .. b is a maximal run of word bytes in statement position, consumed
\* together with the byte that ends it: the line has no line number, no
\* comment and no '{' in front of it
WordRun(a, b) ==
    /\ 1 <= a /\ a <= b /\ b + 1 <= lexer.pos
    /\ \A p \in a..b : WordByte(ByteAt(p))
    /\ ~WordByte(ByteAt(b + 1))
    /\ a = 1 \/ ~WordByte(ByteAt(a - 1))
    /\ \A p \in LineStart(a)..(a - 1) : ByteAt(p) \notin {59, 123}
    /\ ByteAt(LineStart(a)) \notin {78, 110}

\* the bytes a .. b, a-z replaced by A-Z
UpperRun(a, b) ==
    [i \in 1..(b - a + 1) |->
        LET ch == ByteAt(a + i - 1)
        IN  IF ch \in 97..122 THEN ch - 32 ELSE ch]

\* the str_literal callbacks made while the bytes a .. e were processed
StrLiterals(a, e) ==
    SelectSeq(lexer.log,
              LAMBDA x : x.k = "str_literal" /\ x.at >= a /\ x.at <= e)

StatementPosition(p) ==
    /\ 1 <= p /\ p <= lexer.pos
    /\ \A r \in LineStart(p)..(p - 1) : ByteAt(r) \notin {59, 123}
    /\ ByteAt(LineStart(p)) \notin {78, 110} \/ LineStart(p) = p

\* the kinds of the callbacks made while the byte at p was processed
KindsAt(p) == [i \in DOMAIN LogOf(p, p) |-> LogOf(p, p)[i].k]

\* C15: with token memory available and every callback accepted, a '{'
\* read right behind a word causes a str_literal for the word and then a
\* bridge, a '{' read at the start of a statement or behind whitespace
\* causes no bridge; in both cases no error is raised and the lexer is in
\* expression mode (SCAN_EXPR) once the '{' has been consumed.
C15_BraceEntersExpression ==
    (allocfail = {} /\ cbfail = {}) =>
        \A p \in 1..lexer.pos :
            (ByteAt(p) = 123 /\ StatementPosition(p)) =>
                /\ \A i \in DOMAIN KindsAt(p) : KindsAt(p)[i] # "error"
                /\ lexer.pos = p => lexer.state = "SCAN_EXPR"
                /\ IF p > LineStart(p) /\ WordByte(ByteAt(p - 1))
                   THEN /\ Len(KindsAt(p)) >= 2
                        /\ KindsAt(p)[1] = "str_literal"
                        /\ KindsAt(p)[2] = "bridge"
                   ELSE \A i \in DOMAIN KindsAt(p) : KindsAt(p)[i] # "bridge"

\* an expression is opened by the '{' at p, read in statement mode, and the
\* bytes up to p + n have been consumed
ExprOpenedAt(p, n) ==
    /\ allocfail = {} /\ cbfail = {}
    /\ 1 <= p /\ p + n <= lexer.pos
    /\ ByteAt(p) = 123
    /\ StatementPosition(p)

\* C16: a '}' read in expression mode raises no error; if the byte behind
\* it is whitespace, ';' or newline no bridge is made, otherwise exactly one
\* bridge is made and a word begins with that byte.
C16_BraceLeavesExpression ==
    \A p \in 1..lexer.pos :
        (ExprOpenedAt(p, 2) /\ ByteAt(p + 1) = 125) =>
            /\ \A i \in DOMAIN KindsAt(p + 1) : KindsAt(p + 1)[i] # "error"
            /\ IF WordByte(ByteAt(p + 2)) /\ ByteAt(p + 2) # 123
               THEN /\ KindsAt(p + 2) = <<"bridge">>
                    /\ lexer.pos = p + 2 =>
                          /\ lexer.state = "SCAN_WORD"
                          /\ lexer.token = UpperRun(p + 2, p + 2)
               ELSE \A i \in DOMAIN KindsAt(p + 2) :
                        KindsAt(p + 2)[i] # "bridge"

\* id of the keyword ")" in the keyword table
CloseParenId == 283

\* C17: a ')' read in expression mode at nesting zero is reported as the
\* keyword ")"; the next byte that is neither whitespace nor newline then
\* causes a bridge and the lexer is in word mode.
C17_CloseParenAtNestingZero ==
    \A p \in 1..lexer.pos :
        (ExprOpenedAt(p, 2) /\ ByteAt(p + 1) = 41
            /\ ~IsSpace(ByteAt(p + 2)) /\ ByteAt(p + 2) # 10) =>
            /\ Seen(LogOf(p + 1, p + 1)) = <<<<"keyword", CloseParenId>>>>
            /\ Len(KindsAt(p + 2)) >= 1
            /\ KindsAt(p + 2)[1] = "bridge"
            /\ lexer.pos = p + 2 => lexer.state = "SCAN_WORD"

\* the value of the decimal digits at a .. b
RECURSIVE DecimalValue(_, _)
DecimalValue(a, b) ==
    IF b < a THEN 0 ELSE 10 * DecimalValue(a, b - 1) + (ByteAt(b) - 48)

\* C20: a decimal integer literal read in expression mode is passed to
\* int_literal with its mathematical value, as soon as the byte that ends
\* it ('}' or whitespace) has been consumed.
C20_IntLiteralValue ==
    \A p \in 1..lexer.pos : \A q \in (p + 1)..(lexer.pos - 1) :
        (ExprOpenedAt(p, 2)
            /\ \A d \in (p + 1)..q : ByteAt(d) \in 49..57
            /\ ByteAt(q + 1) \in {125, 32}) =>
            \E i \in DOMAIN LogOf(q + 1, q + 1) :
                /\ LogOf(q + 1, q + 1)[i].k = "int_literal"
                /\ LogOf(q + 1, q + 1)[i].a = DecimalValue(p + 1, q)

\* C18: gcode_lexer_finish called in fresh-line state makes no callback and
\* changes nothing; called in another state it does what scanning one
\* newline does; either way the lexer is then in fresh-line state with no
\* token pending, and a finish repeated at once changes nothing.
C18_FinishFlushes ==
    [][/\ (lexop # "finish" /\ lexop' = "finish") =>
            /\ lexer.state = "SCAN_NEWLINE" => lexer' = lexer
            /\ lexer.state # "SCAN_NEWLINE" =>
                  /\ Len(lexer.log) <= Len(lexer'.log)
                  /\ SubSeq(lexer'.log, 1, Len(lexer.log)) = lexer.log
                  /\ \A i \in (Len(lexer.log) + 1)..Len(lexer'.log) :
                        lexer'.log[i].at = fed + 1
                  /\ lexer'.pos = fed + 1
            /\ lexer'.state = "SCAN_NEWLINE"
            /\ lexer'.token = << >>
       /\ lexop' = "refinish" => lexer' = lexer]_vars

\* finish flushed a pending word as str_literal and end_of_statement, and
\* was then called again
C18_Witness ==
    /\ lexop = "refinish"
    /\ Len(lexer.log) >= 2
    /\ lexer.log[Len(lexer.log)].k = "end_of_statement"
    /\ lexer.log[Len(lexer.log)].at = fed + 1
    /\ lexer.log[Len(lexer.log) - 1].k = "str_literal"
    /\ lexer.log[Len(lexer.log) - 1].at = fed + 1

\* C19: after gcode_lexer_reset, whatever was scanned before and whatever
\* state that left the lexer in, scanning B and finishing makes the
\* callbacks, with the same arguments, locations and answers, that a newly
\* constructed lexer makes, and leaves the same line, column and state.
C19_ResetIsFresh ==
    resets # << >> =>
        LET whole == gcode_lexer_scan(gcode_lexer_new, Given)
            fresh == IF lexop \in {"finish", "refinish"}
                     THEN gcode_lexer_finish(whole) ELSE whole
        IN  /\ lexer.log = fresh.log
            /\ lexer.state = fresh.state
            /\ lexer.token = fresh.token
            /\ lexer.line = fresh.line
            /\ lexer.column = fresh.column

\* the lexer was reset in the middle of a word, then given all of B and
\* finished, and made callbacks for B
C19_Witness ==
    /\ resets = <<"SCAN_WORD">>
    /\ lexop = "finish"
    /\ fed = Len(input)
    /\ \E i \in DOMAIN lexer.log : lexer.log[i].k = "str_literal"

\* a capacity the ring can have: 32 times a power of two
IsCapacity(n) == \E k \in 0..8 : n = RingInitSize * (2 ^ k)

\* the shape of the ring indices
RingShape(q) ==
    /\ IsCapacity(q.ring_size)
    /\ q.ring_pos \in 0..(q.ring_size - 1)
    /\ q.size \in 0..q.ring_size

\* C24: in every state of a queue ring_size is 32 times a power of two,
\* 0 <= ring_pos < ring_size and 0 <= size <= ring_size; the capacity never
\* shrinks, and it changes only by doubling, in a push that finds
\* size = ring_size.
C24_CapacityShape ==
    [][/\ RingShape(queue)
       /\ RingShape(queue')
       /\ queue'.ring_size >= queue.ring_size
       /\ queue'.ring_size # queue.ring_size =>
             /\ queue'.ring_size = 2 * queue.ring_size
             /\ last'.op \in {"parse_error", "parse_statement"}
             /\ queue.size = queue.ring_size]_vars

\* a push found the ring full, with the head not at slot 0, and doubled
\* the capacity
C24_Witness ==
    /\ last.grew
    /\ last.pre_pos > 0
    /\ last.pre_size = last.pre_cap
    /\ queue.ring_size = 2 * last.pre_cap

\* C25: what gcode_queue_exec_next leaves in the result refers to memory
\* that is still allocated when the call returns: the error text of a
\* popped Error entry has not been released by the same call.
C25_ResultStillAllocated ==
    (last.op = "exec_next" /\ result.type = "GCODE_PY_ERROR"
        /\ result.ref # 0) =>
            freed[result.ref] = 0

\* C26: after a push that grows the ring the push's own store and every
\* later access go through the reallocated storage: the queue no longer
\* refers to the block that was handed to realloc.
C26_QueueUsesNewStorage ==
    last.grew => (~crashed /\ ~queue.ring_freed)

\* C27: parse_statement never reads the statement after ring_add has
\* dropped and released it: the command name is not inspected then.
C27_NoReadAfterDrop ==
    ~last.stale_read

\* C28: a first word of a line that begins with N or n and is not N
\* followed by digits is not discarded as a line number: with every
\* callback accepted, the word made of N and a byte that is not a digit is
\* delivered as one str_literal when the byte ending it is consumed.
C28_LineNumberForm ==
    cbfail = {} =>
        \A s \in 1..lexer.pos :
            (/\ s = 1 \/ ByteAt(s - 1) = 10
             /\ ByteAt(s) \in {78, 110}
             /\ s + 2 <= lexer.pos
             /\ WordByte(ByteAt(s + 1)) /\ ByteAt(s + 1) \notin 48..57
             /\ ~WordByte(ByteAt(s + 2)) /\ ByteAt(s + 2) # 123) =>
                /\ Len(StrLiterals(s, s + 2)) = 1
                /\ StrLiterals(s, s + 2)[1].a = UpperRun(s, s + 1)

\* C30: exactly the characters 0-9, a-f and A-F are hex digits, with the
\* values 0 .. 15; for every other character hex_digit_to_int answers that
\* it is no digit (-1).
C30_HexDigits ==
    probe.done =>
        probe.digit = (IF probe.ch \in 48..57 THEN probe.ch - 48
                       ELSE IF probe.ch \in 97..102 THEN probe.ch - 87
                       ELSE IF probe.ch \in 65..70 THEN probe.ch - 55
                       ELSE -1)

\* ids of the keywords "(" and "." in the keyword table
OpenParenId == 282
DotId == 280

\* the bytes p + 1 .. q all lie inside the expression opened by the '{' at
\* p, outside a string literal: none of them is '}' or a newline
InsideExpr(p, q) ==
    /\ ExprOpenedAt(p, q - p)
    /\ \A i \in (p + 1)..q : ByteAt(i) \notin {125, 10, 34}

\* the nesting counter after the bytes a .. b of an expression
RECURSIVE Nesting(_, _)
Nesting(a, b) ==
    IF b < a THEN 0
    ELSE IF ByteAt(b) = 40 THEN Nesting(a, b - 1) + 1
    ELSE IF ByteAt(b) = 41 /\ Nesting(a, b - 1) > 0 THEN Nesting(a, b - 1) - 1
    ELSE Nesting(a, b - 1)

\* C29: every '(' and ')' read in expression mode outside a string literal,
\* also right behind an operator character and also a ')' that matches no
\* '(', causes exactly one keyword callback with the id of that parenthesis;
\* the nesting counter goes up with '(' and down with ')', not below zero.
C29_ParenthesesAreKeywords ==
    \A p \in 1..lexer.pos : \A q \in (p + 1)..lexer.pos :
        (InsideExpr(p, q) /\ ByteAt(q) \in {40, 41}) =>
            /\ Len(SelectSeq(LogOf(q, q),
                    LAMBDA x : x.k = "keyword" /\ x.a \in {OpenParenId,
                                                           CloseParenId})) = 1
            /\ \E i \in DOMAIN LogOf(q, q) :
                  /\ LogOf(q, q)[i].k = "keyword"
                  /\ LogOf(q, q)[i].a = (IF ByteAt(q) = 40 THEN OpenParenId
                                        ELSE CloseParenId)
            /\ lexer.pos = q => lexer.expr_nesting = Nesting(p + 1, q)

\* C22: in expression mode an identifier, a '.' right behind it and another
\* identifier are reported as identifier, keyword ".", identifier, in that
\* order, and no numeric literal is made for the '.'.
C22_LookupChain ==
    \A p \in 1..lexer.pos :
        (/\ ExprOpenedAt(p, 4)
         /\ ByteAt(p + 1) = 103 /\ ByteAt(p + 2) = 46 /\ ByteAt(p + 3) = 103
         /\ ByteAt(p + 4) \in {125, 32, 41, 43}) =>
            /\ Len(LogOf(p + 1, p + 4)) >= 3
            /\ SubSeq(Seen(LogOf(p + 1, p + 4)), 1, 3) =
                  <<<<"identifier", <<71>>>>, <<"keyword", DotId>>,
                    <<"identifier", <<71>>>>>>
            /\ \A i \in DOMAIN LogOf(p + 1, p + 4) :
                  LogOf(p + 1, p + 4)[i].k \notin {"int_literal",
                                                   "float_literal", "error"}

\* a digit that would take the running value acc beyond INT64_MAX
Exceeds(acc, d) == WGreater(acc, WDivSmall(WSubSmall(INT64_MAX, d), 10))

\* the index of the first digit of ds at which the running value would go
\* beyond INT64_MAX, 0 when the literal fits
RECURSIVE OverflowAt(_, _, _)
OverflowAt(ds, i, acc) ==
    IF i > Len(ds) THEN 0
    ELSE IF Exceeds(acc, ds[i] - 48) THEN i
    ELSE OverflowAt(ds, i + 1, WMulAdd(acc, 10, ds[i] - 48))

\* the value of the first k digits of ds
RECURSIVE IntOfDigits(_, _)
IntOfDigits(ds, k) ==
    IF k = 0 THEN W(0) ELSE WMulAdd(IntOfDigits(ds, k - 1), 10, ds[k] - 48)

\* the float made of all digits of ds: the running integer in front of the
\* overflowing digit, then that digit and every later one
FloatOfDigits(ds) ==
    LET k == OverflowAt(ds, 1, W(0))
    IN  <<[op |-> "set", v |-> IntOfDigits(ds, k - 1)]>>
        \o [j \in 1..(Len(ds) - k + 1) |->
               [op |-> "muladd", base |-> 10, v |-> ds[k + j - 1] - 48]]

\* the bytes at a .. b
BytesAt(a, b) == [i \in 1..(b - a + 1) |-> ByteAt(a + i - 1)]

\* C21: a decimal integer literal in an expression whose value is beyond
\* INT64_MAX raises no error and causes exactly one float_literal and no
\* int_literal; the float is the value of all digits of the literal, the
\* digit at which the overflow was found included.
C21_DecimalOverflowToFloat ==
    \A p \in 1..lexer.pos : \A q \in (p + 1)..(lexer.pos - 1) :
        (/\ ExprOpenedAt(p, q + 1 - p)
         /\ ByteAt(p + 1) \in 49..57
         /\ \A i \in (p + 1)..q : ByteAt(i) \in 48..57
         /\ ByteAt(q + 1) = 32
         /\ OverflowAt(BytesAt(p + 1, q), 1, W(0)) # 0) =>
            LET log == LogOf(p + 1, q + 1)
            IN  /\ \A i \in DOMAIN log :
                      log[i].k \notin {"error", "int_literal"}
                /\ Len(SelectSeq(log, LAMBDA x : x.k = "float_literal")) = 1
                /\ \A i \in DOMAIN log :
                      log[i].k = "float_literal" =>
                          log[i].a = FloatOfDigits(BytesAt(p + 1, q))

\* a field of the last statement could not be serialized (its value has no
\* known type) or could not be buffered (no memory)
FieldFails ==
    interp.children > 0 /\ (interp.seen = "GCODE_VAL_UNKNOWN" \/ interp.oom)

\* C23: gcode_interp_exec starts from field count 0 and arena length 0
\* whatever the previous statement left; when a field fails it returns
\* failure at that field, processes no later field and delivers no
\* command; otherwise it processes every field and delivers exactly one
\* command, which has one field for each child.
C23_ExecDeliversFields ==
    interp.execs > 0 =>
        /\ interp.entry_count = 0
        /\ interp.entry_len = 0
        /\ FieldFails =>
              /\ ~interp.ret
              /\ interp.processed = 1
              /\ interp.delivered = << >>
        /\ ~FieldFails =>
              /\ ~interp.fault
              /\ interp.ret
              /\ interp.processed = interp.children
              /\ Len(interp.delivered) = 1
              /\ Len(interp.delivered[1]) = interp.children

\* the value of the octal digits at a .. b
RECURSIVE OctalValue(_, _)
OctalValue(a, b) ==
    IF b < a THEN 0 ELSE 8 * OctalValue(a, b - 1) + (ByteAt(b) - 48)

\* the bytes a .. a + n - 1 are the octal digits of one escape: n is 3, or
\* the byte behind them is not an octal digit
OctalRun(a, n) ==
    /\ \A i \in a..(a + n - 1) : ByteAt(i) \in 48..55
    /\ n = 3 \/ ByteAt(a + n) \notin 48..55

\* C31: in a string literal of an expression a backslash followed by one
\* to three octal digits stands for the single byte with their octal value:
\* when the value is at most 255 and the string is closed after ordinary
\* content, one str_literal is made whose text is that byte followed by the
\* content, the first byte behind a short run of digits included; when the
\* value is above 255 an error is raised and no str_literal is made.
C31_OctalEscape ==
    \A p \in 1..lexer.pos : \A n \in 1..3 : \A e \in (p + 3)..lexer.pos :
        (/\ ExprOpenedAt(p, e - p)
         /\ ByteAt(p + 1) = 34 /\ ByteAt(p + 2) = 92
         /\ e >= p + 2 + n
         /\ OctalRun(p + 3, n)) =>
            LET v == OctalValue(p + 3, p + 2 + n)
                log == LogOf(p + 1, e)
            IN  /\ (/\ v <= 255 /\ e > p + 2 + n /\ ByteAt(e) = 34
                    /\ \A i \in (p + 3 + n)..(e - 1) :
                          ByteAt(i) \notin {34, 92, 10}) =>
                       Seen(log) = <<<<"str_literal",
                                      <<v>> \o BytesAt(p + 3 + n, e - 1)>>>>
                /\ (v > 255 /\ e = p + 2 + n) =>
                       /\ \E i \in DOMAIN log : log[i].k = "error"
                       /\ \A i \in DOMAIN log : log[i].k # "str_literal"

\* the number of newline bytes among the first p bytes the lexer was given
RECURSIVE NewlinesUpTo(_)
NewlinesUpTo(p) ==
    IF p = 0 THEN 0
    ELSE NewlinesUpTo(p - 1) + (IF ByteAt(p) = 10 THEN 1 ELSE 0)

\* the number of bytes consumed behind the last newline among the first p
RECURSIVE SinceNewline(_)
SinceNewline(p) ==
    IF p = 0 \/ ByteAt(p) = 10 THEN 0 ELSE SinceNewline(p - 1) + 1

\* C32: the line is 1 plus the number of newline bytes consumed, and the
\* column has advanced by exactly one for each byte consumed in the current
\* line, from the 0 of the reset or from the 1 a newline sets it to,
\* whichever lexer state read the byte and whether or not the byte was read
\* a second time after a change of state.
C32_LineAndColumn ==
    ~lexer.fault =>
        /\ lexer.line = 1 + NewlinesUpTo(lexer.pos)
        /\ lexer.column = SinceNewline(lexer.pos)
                           + (IF NewlinesUpTo(lexer.pos) = 0 THEN 0 ELSE 1)

\* the states in which the lexer is between tokens: at the start of a
\* line, in a statement, in an expression, in error recovery
BetweenTokens ==
    {"SCAN_NEWLINE", "SCAN_STATEMENT", "SCAN_EXPR", "SCAN_ERROR"}

\* C33: whenever the lexer is between tokens its token buffer is empty
\* (token_length is 0).
C33_NoTokenBetweenTokens ==
    (~lexer.fault /\ lexer.state \in BetweenTokens) => lexer.token = << >>

\* the nodes from p along the next links; Wild stands for a link that does
\* not lead to a node or for a chain that does not end
RECURSIVE Chain(_, _, _)
Chain(h, p, fuel) ==
    IF p = Null THEN << >>
    ELSE IF p = Wild \/ fuel = 0 THEN <<Wild>>
    ELSE <<p>> \o Chain(h, h[p].next, fuel - 1)

\* the child list of a Statement, Operator or Function node
ChildrenOf(h, p) == Chain(h, h[p].children, MaxNodes)

\* C34: gcode_add_child(parent, child) returns parent; when parent is a
\* Statement, Operator or Function node and child is not null, the child
\* list of parent afterwards is the list before followed by child (and by
\* the siblings child brings with it), which is its last element; when
\* parent is a leaf, or parent or child is null, no node is changed.
C34_AddChildAppends ==
    LET c == ast.last
    IN  c.op = "add_child" =>
            /\ c.ret = c.a
            /\ IF c.a # Null /\ c.b # Null
                  /\ c.pre[c.a].kind \in ParentKinds
               THEN /\ ast.fault = "none"
                    /\ ChildrenOf(ast.heap, c.a) =
                          ChildrenOf(c.pre, c.a)
                              \o Chain(c.pre, c.b, MaxNodes)
               ELSE ast.fault = "none" /\ ast.heap = c.pre

\* C35: gcode_add_next(sibling, child) on a chain the host holds returns
\* the first node of the chain, sibling, or child when sibling is null;
\* the chain from the returned node is the chain of sibling as it was,
\* followed by child (and by the siblings child brings with it).
C35_AddNextKeepsHead ==
    LET c == ast.last
    IN  (c.op = "add_next" /\ c.b # Null
         /\ (c.a # Null => c.pre[c.a].owner = Null)) =>
            /\ ast.fault = "none"
            /\ c.ret = (IF c.a = Null THEN c.b ELSE c.a)
            /\ Chain(ast.heap, c.ret, MaxNodes) =
                  Chain(c.pre, c.a, MaxNodes) \o Chain(c.pre, c.b, MaxNodes)

\* the nodes reachable from p through child and next links
RECURSIVE Reach(_, _, _)
Reach(h, p, fuel) ==
    IF p \in {Null, Wild} \/ fuel = 0 THEN {}
    ELSE {p} \cup Reach(h, h[p].next, fuel - 1)
             \cup (IF h[p].kind \in ParentKinds
                   THEN Reach(h, h[p].children, fuel - 1) ELSE {})

\* C36: gcode_node_delete(node) frees every node reachable from node
\* exactly once, frees the name or text of each of them that owns one
\* exactly once, passes nothing else to free and leaves every other node
\* as it was; gcode_node_delete(NULL) changes nothing.
C36_DeleteReleasesTree ==
    LET c == ast.last
        gone == Reach(c.pre, c.a, MaxNodes)
    IN  c.op = "delete" =>
            /\ ast.fault = "none"
            /\ \A i \in 1..MaxNodes :
                  IF i \in gone
                  THEN /\ ast.heap[i].frees = 1
                       /\ ast.heap[i].textfrees =
                             (IF c.pre[i].text = "heap" THEN 1 ELSE 0)
                  ELSE ast.heap[i] = c.pre[i]

\* C37: a constructor call that succeeds returns a node whose type is the
\* tag of its variant and whose next link is null.
C37_FreshNodeWellFormed ==
    LET c == ast.last
    IN  (c.op = "new" /\ c.ret # Null) =>
            /\ ast.heap[c.ret].type = TagOf(c.kind)
            /\ ast.heap[c.ret].next = Null

\* the range r lies inside the block str_buf points to
InsideArena(r) == r.from >= 0 /\ r.from + r.len <= interp.str_cap

\* two ranges have no byte in common
Disjoint(r, s) == r.from + r.len <= s.from \/ s.from + s.len <= r.from

\* C38: after gcode_interp_str_alloc(n) has returned a string, str_length
\* has grown by n + 1 and is at most str_limit, and the ranges handed out
\* since the last reset lie inside the arena buffer and do not overlap.
C38_ArenaAllocInBounds ==
    (interp.asked >= 0 /\ interp.got) =>
        LET h == interp.handed
        IN  /\ h # << >>
            /\ interp.str_length = h[Len(h)].before + interp.asked + 1
            /\ interp.str_length <= interp.str_limit
            /\ \A i \in DOMAIN h : InsideArena(h[i])
            /\ \A i, j \in DOMAIN h : i < j => Disjoint(h[i], h[j])

\* the value types serialize has a text for
KnownValTypes == ValTypes \ {"GCODE_VAL_UNKNOWN"}

\* C39: when the first field of a statement has a value of a known type,
\* its serialization does not fail: no "Internal: Unknown value type"
\* error is raised and the field is stored.
C39_SerializeKnownTypes ==
    (interp.execs = 1 /\ interp.children > 0 /\ ~interp.oom
     /\ interp.seen \in KnownValTypes) =>
        /\ \A i \in DOMAIN interp.log :
              interp.log[i].a # "Internal: Unknown value type"
        /\ interp.fields # << >>

\* C40: when the key has a text and the host returns no value, the lookup
\* callback returns true with result type GCODE_VAL_UNKNOWN; when the host
\* returns a string, it returns true with a GCODE_VAL_STR holding that
\* string.
C40_LookupResult ==
    (lk.calls > 0 /\ lk.key_str # "null") =>
        /\ lk.ret
        /\ IF lk.rv = "null" THEN lk.result.type = "GCODE_VAL_UNKNOWN"
           ELSE lk.result = GCodeVal("GCODE_VAL_STR", lk.rv)

=============================================================================
